---- MODULE Spec2Model ----
(***************************************************************************)
(* Model of the try-on session orchestrator (TryOnService) and of the      *)
(* parts of the vendor adapters (GeminiService, KlingAIService) that the   *)
(* orchestrator's background jobs go through, and of the image-to-video    *)
(* adapter (KlingAIVideoService).                                          *)
(*                                                                         *)
(* The wall clock is a millisecond counter.  A session id is the text      *)
(* tryon_<ms> and an output file is gen_<ms>.jpg, so both are modelled by  *)
(* the millisecond value they are built from.                              *)
(***************************************************************************)
EXTENDS Integers, Sequences, FiniteSets, TLC

\* ---------------------------------------------------------------- bounds
MaxClock == 2
MaxStarts == 2
MaxDownloads == 2
MaxEdits == 2
MaxUpdates == 2
MaxThreads == 3
\* the largest width and height of a user image
MaxSide == 5
\* the timeout of _poll_task_result, in poll intervals
PollTimeout == 3

\* ------------------------------------------------------------ value sets
SIDs == 1..MaxClock

Vendors == {"Gemini", "KlingAI"}

\* classes of the user_image_data_url argument
\*   missing     : None or ""
\*   notdata     : a string that does not start with data:image (no comma)
\*   undecodable : starts with data:image but _write_data_url_to_file raises
\*   valid       : a decodable image data URL
UserImages == {"missing", "notdata", "undecodable", "valid"}

\* classes of the garment_image_url argument
\*   none     : None, or a path that resolves to no file
\*   valid    : resolves to a reference image file
\*   bad_data : a data:image URL that _write_data_url_to_file rejects
Garments == {"none", "valid", "bad_data"}

GeminiStates == {"absent", "no_client", "ready"}
KlingaiStates == {"absent", "no_keys", "ready"}

NoneMsg == "<None>"
NoSid == 0
NoPath == [prefix |-> "none", t |-> 0]

GenPath(t) == [prefix |-> "gen", t |-> t]
SessionFile(sid) == [prefix |-> "tryon", t |-> sid]

\* ---- image-to-video adapter
\* model identifiers (settings key KLINGAI_VIDEO_MODEL), as character sequences
KlingV1 == <<"k", "l", "i", "n", "g", "-", "v", "1">>
KlingTurbo == <<"k", "l", "i", "n", "g", "-", "v", "2", "-", "5", "-", "t", "u", "r", "b", "o">>
KlingTurboCaps == <<"K", "l", "i", "n", "g", "-", "V", "2", "-", "T", "u", "r", "b", "o">>
KlingTurb == <<"k", "l", "i", "n", "g", "-", "t", "u", "r", "b">>
TurboUpperPro == <<"T", "U", "R", "B", "O", "-", "p", "r", "o">>
VideoModels == {KlingV1, KlingTurbo, KlingTurboCaps, KlingTurb, TurboUpperPro}

TurboWord == <<"t", "u", "r", "b", "o">>
TurboWordUpper == <<"T", "U", "R", "B", "O">>

\* the duration argument of generate_video
Durations == {5, 7, 10}
SupportedDurations == {5, 10}

\* task_status values the vendor reports for a task
ProcessingWords == {"submitted", "processing", "pending"}
DoneWords == {"succeed", "success", "completed"}
FailedWords == {"failed", "error"}
VendorWords == ProcessingWords \cup DoneWords \cup FailedWords \cup {"queued"}

NoTask == "none"
NoVideo == 0

\* ---- the settings file (settings.json)
\* a key the file does not have
Missing == "<missing>"

\* values of the key VENDOR_TRYON
VendorSettings == {"Gemini", "KlingAI", "klingai", Missing}

\* what reading the file comes to
\*   ok         : a JSON object
\*   malformed  : json.loads raises
\*   unreadable : read_text raises
SettingsForms == {"ok", "malformed", "unreadable"}

\* The values an edit of the file gives a key.  An empty string (an empty
\* sequence for a model identifier) stands for a key that is absent or
\* empty: the adapters read their keys with  data.get(KEY) or <old value>,
\* which treats both alike.
SettingValues(key) ==
    CASE key = "VENDOR_TRYON" -> VendorSettings
      [] key = "GEMINI_API_KEY" -> {"key-1", "key-2", ""}
      [] key = "GEMINI_MODEL" -> {"image-1", "image-2"}
      [] key = "GEMINI_LLM" -> {"llm-1", "llm-2"}
      [] key = "KLINGAI_VIDEO_MODEL" -> {KlingV1, KlingTurbo}
      [] key = "KLINGAI_VIDEO_MODE" -> {"std", "pro"}
      [] key = "KLINGAI_VIDEO_DURATION" -> {"5", "10", "abc"}

AdapterKeys == {"GEMINI_API_KEY", "GEMINI_MODEL", "GEMINI_LLM",
                "KLINGAI_VIDEO_MODEL", "KLINGAI_VIDEO_MODE",
                "KLINGAI_VIDEO_DURATION"}

\* the file after its first write: mtime 1, a JSON object
DefaultSettings ==
    [mtime |-> 1, form |-> "ok", VENDOR_TRYON |-> "Gemini",
     GEMINI_API_KEY |-> "key-1", GEMINI_MODEL |-> "image-1",
     GEMINI_LLM |-> "llm-1", KLINGAI_VIDEO_MODEL |-> KlingV1,
     KLINGAI_VIDEO_MODE |-> "std", KLINGAI_VIDEO_DURATION |-> "5"]

\* the methods of GeminiService that call the vendor
GeminiMethods == {"generate_virtual_tryon", "generate_virtual_tryon_simple",
                  "generate_virtual_tryon_two_stage",
                  "analyze_user_photo_suitability"}

\* the result of int() on a value that is no number
NoInt == 0 - 1

\* int(x) for the values a duration key holds; NoInt when int() raises
ParseInt(x) ==
    CASE x = "5" -> 5
      [] x = "10" -> 10
      [] OTHER -> NoInt

VARIABLES
    clock,            \* int(time.time()*1000)
    gemini,           \* TryOnService.gemini / its client
    klingai,          \* TryOnService.klingai / its keys
    session_outputs,  \* TryOnService._session_outputs (dict)
    session_errors,   \* TryOnService._session_errors (dict)
    files,            \* outputs_dir: file name -> ids of the sessions that wrote it
    jobs,             \* the background threads that are alive
    issued,           \* history: number of start calls that computed each id
    accepted,         \* history: ids returned with status processing
    lastStart,        \* history: the latest start call and what it did
    vendorCalls,      \* history: the kinds of thread that made a vendor call
    writes,           \* history: number of writes to the session tables per id
    lastPoll,         \* history: the latest get_result call and its answer
    video_keys,       \* KlingAIVideoService.access_key and .secret_key are set
    video_model,      \* KlingAIVideoService.model
    task_status,      \* vendor side: task_status of the latest video task
    video_files,      \* outputs_dir: the video_<ms>.mp4 files written
    downloads,        \* history: times the latest task's video was downloaded and written
    firstCompleted,   \* history: output of the first completed poll answer
    lastGen,          \* history: the latest generate_video call
    lastVideoPoll,    \* history: the latest poll_video_task call
    settings,         \* the settings file: its mtime and what it holds
    _vendor,          \* TryOnService._vendor
    lastRoute,        \* history: the latest start call's vendor setting and flow
    gemini_api_key,   \* GeminiService.api_key
    gemini_model_name,      \* GeminiService.model_name
    gemini_llm_name,        \* GeminiService.llm_name
    gemini_llm_model_name,  \* GeminiService.llm_model_name
    gemini_client,    \* GeminiService.client: the key it was built with, "" for None
    gemini_settings_mtime,  \* GeminiService._settings_mtime
    video_mode,       \* KlingAIVideoService.mode
    video_duration,   \* KlingAIVideoService.duration
    video_settings_mtime,   \* KlingAIVideoService._settings_mtime
    lastReload,       \* history: per service, its latest _reload_settings_if_changed call
    lastCall,         \* history: the latest GeminiService method call
    db,               \* "present" when common.db imported (get_session is set), else "absent"
    tryon_records,    \* the table of TryOnRecord rows: session id -> status
    lastSave,         \* history: the latest _save_tryon_record call that reached the database
    history_file,     \* the data file of TryOnHistoryRepository
    history_calls,    \* the update_record calls in progress
    history_done,     \* history: the update_record calls that returned
    lock,             \* TryOnService._lock: the thread that holds it, 0 when free
    lock_threads,     \* the threads that go through the session tables
    gemini_call,      \* one call of a GeminiService generation method, step by step
    roi,              \* one region-of-interest computation and its composited image
    kling_poll        \* one KlingAIService.generate_virtual_tryon call from its task on

tryonVars == <<clock, gemini, klingai, session_outputs, session_errors, files,
               jobs, issued, accepted, lastStart, vendorCalls, writes, lastPoll>>

videoVars == <<video_keys, video_model, task_status, video_files, downloads,
               firstCompleted, lastGen, lastVideoPoll>>

routeVars == <<settings, _vendor, lastRoute>>

persistVars == <<db, tryon_records, lastSave>>

sideVars == <<history_file, history_calls, history_done, lock, lock_threads,
              gemini_call, roi, kling_poll>>

reloadVars == <<gemini_api_key, gemini_model_name, gemini_llm_name,
                gemini_llm_model_name, gemini_client, gemini_settings_mtime,
                video_mode, video_duration, video_settings_mtime,
                lastReload, lastCall>>

vars == <<clock, gemini, klingai, session_outputs, session_errors, files,
          jobs, issued, accepted, lastStart, vendorCalls, writes, lastPoll,
          video_keys, video_model, task_status, video_files, downloads,
          firstCompleted, lastGen, lastVideoPoll,
          settings, _vendor, lastRoute,
          gemini_api_key, gemini_model_name, gemini_llm_name,
          gemini_llm_model_name, gemini_client,
          gemini_settings_mtime, video_mode, video_duration,
          video_settings_mtime, lastReload, lastCall,
          db, tryon_records, lastSave,
          history_file, history_calls, history_done, lock, lock_threads,
          gemini_call, roi, kling_poll>>

NoStart == [img |-> "none", session_id |-> NoSid, status |-> "none",
            has_sid |-> FALSE, spawned |-> 0, wrote |-> FALSE]
NoPoll == [sid |-> NoSid, status |-> "none", sawErr |-> FALSE, sawOut |-> FALSE]
NoGen == [duration |-> 0, status |-> "none", sent |-> FALSE, built |-> FALSE,
          model_name |-> << >>, has_mode |-> FALSE]
NoVideoPoll == [word |-> "none", class |-> "none", status |-> "none",
                output |-> NoVideo]

\* no video call has been made
VideoIdle ==
    /\ task_status = NoTask
    /\ video_files = {}
    /\ downloads = 0
    /\ firstCompleted = NoVideo
    /\ lastGen = NoGen
    /\ lastVideoPoll = NoVideoPoll

\* _load_vendor_setting(): the file's VENDOR_TRYON, "Gemini" when the file
\* has no such key or json.loads raises
LoadVendorSetting(f) ==
    IF f.form # "ok" THEN "Gemini"
    ELSE IF f.VENDOR_TRYON = Missing THEN "Gemini"
    ELSE f.VENDOR_TRYON

NoRoute == [setting |-> "none", form |-> "none", before |-> "none",
            flow |-> "none", tid |-> 0]

NoReload == [seen |-> 0, loaded |-> FALSE]
NoCall == [method |-> "none", reached |-> FALSE, key |-> "", model |-> "",
           llm |-> ""]

\* GeminiService._load_settings and KlingAIVideoService._load_settings on
\* the file f, a JSON object with every key set: the fields are the file's
\* values and the file's mtime is recorded
Loaded(f) ==
    /\ gemini_api_key = f.GEMINI_API_KEY
    /\ gemini_model_name = f.GEMINI_MODEL
    /\ gemini_llm_name = f.GEMINI_LLM
    /\ gemini_llm_model_name = f.GEMINI_LLM
    /\ gemini_client = f.GEMINI_API_KEY
    /\ gemini_settings_mtime = f.mtime
    /\ video_mode = f.KLINGAI_VIDEO_MODE
    /\ video_duration = ParseInt(f.KLINGAI_VIDEO_DURATION)
    /\ video_settings_mtime = f.mtime

\* the services were constructed from the default file and nothing was
\* called since
SettingsIdle ==
    /\ settings = DefaultSettings
    /\ _vendor = LoadVendorSetting(DefaultSettings)
    /\ lastRoute = NoRoute
    /\ Loaded(DefaultSettings)
    /\ lastReload = [svc \in {"gemini", "video"} |-> NoReload]
    /\ lastCall = NoCall

NoSave == [sid |-> NoSid, status |-> "none", failed |-> FALSE, raised |-> FALSE]

\* no _save_tryon_record call has reached the database; d tells whether
\* the database layer was imported (get_session is set)
PersistIdle(d) ==
    /\ db = d
    /\ tryon_records = <<>>
    /\ lastSave = NoSave

\* a record of the history file as add_record writes it for an accepted
\* request; "" stands for None
NewRecord == [result_photo_path |-> "", video_path |-> "",
              status |-> "processing", error_message |-> ""]

RecordIds == {1, 2}

\* a vendor response to an image-generation call
\*   raised : generate_content raised instead of answering
\*   image  : where the response carries the image: "sdk" as bytes in a
\*            part's inline_data, "b64" as a base64 string that only the
\*            dict view yields, "none" nowhere
\*   finish : the candidate's finish_reason
\*   rating : a safety rating with probability HIGH or MEDIUM
FinishReasons == {"STOP", "IMAGE_OTHER", "SAFETY"}
Answers == [raised : {FALSE}, image : {"sdk", "b64", "none"},
            finish : FinishReasons, rating : BOOLEAN]
Raised == [raised |-> TRUE, image |-> "none", finish |-> "STOP", rating |-> FALSE]
Responses == Answers \cup {Raised}

\* no generation method has been called
NoCallYet == [method |-> "none", region |-> "none", pc |-> "idle",
              attempts |-> <<>>, first |-> Raised, roi_none |-> FALSE,
              status |-> "none", mode |-> "none"]

NoRoi == [pc |-> "idle", which |-> "none", w |-> 0, h |-> 0,
          box |-> <<0, 0, 0, 0>>, patch |-> <<0, 0>>, gen_size |-> <<0, 0>>,
          image |-> <<>>, file |-> <<0, 0>>, result |-> "none"]

NoKlingPoll == [pc |-> "idle", elapsed |-> 0, polls |-> 0, last |-> "none",
                downloads |-> 0, status |-> "none", mode |-> "none"]

\* the history file holds two records, no update is in progress, and no
\* thread is at the session tables
SideRest ==
    /\ history_file = [ok |-> TRUE, records |-> [r \in RecordIds |-> NewRecord]]
    /\ history_calls = {}
    /\ history_done = {}
    /\ lock = 0
    /\ lock_threads = <<>>
    /\ gemini_call = NoCallYet
    /\ kling_poll = NoKlingPoll

SideIdle == SideRest /\ roi = NoRoi

Init ==
    /\ clock = 1
    /\ gemini \in GeminiStates
    /\ klingai \in KlingaiStates
    /\ session_outputs = <<>>
    /\ session_errors = <<>>
    /\ files = <<>>
    /\ jobs = {}
    /\ issued = [s \in SIDs |-> 0]
    /\ accepted = {}
    /\ lastStart = NoStart
    /\ vendorCalls = {}
    /\ writes = [s \in SIDs |-> 0]
    /\ lastPoll = NoPoll
    /\ video_keys = TRUE
    /\ video_model = KlingV1
    /\ VideoIdle
    /\ PersistIdle("absent")
    /\ SideIdle
    /\ SettingsIdle

\* open(path, "wb").write(...) by the job of session sid
FileWrite(f, sid) ==
    IF f \in DOMAIN files THEN [files EXCEPT ![f] = @ \cup {sid}]
                          ELSE (f :> {sid}) @@ files

\* dict[key] = value
DictPut(d, k, v) == (k :> v) @@ d

\* dict.get(key): the stored message, or NoneMsg when the key is absent
ErrGet(s) == IF s \in DOMAIN session_errors THEN session_errors[s] ELSE NoneMsg

\* Python truthiness of an Optional[str]
Truthy(m) == m # NoneMsg /\ m # ""

\* a write that stores the adapter's message as it came
OrDefault_Keep(m, d) == m

\* msg or default
OrDefault(m, d) == IF Truthy(m) THEN m ELSE d

\* the clock advances
Tick ==
    /\ clock < MaxClock
    /\ clock' = clock + 1
    /\ UNCHANGED <<gemini, klingai, session_outputs, session_errors, files,
                   jobs, issued, accepted, lastStart, vendorCalls, writes, lastPoll>>
    /\ UNCHANGED videoVars
    /\ UNCHANGED routeVars
    /\ UNCHANGED reloadVars
    /\ UNCHANGED sideVars
    /\ UNCHANGED persistVars

\* ------------------------------------------------------------ get_result
\* get_result with the two table lookups in the other order
GetResultValue_SuccessFirst(s) ==
    IF s = NoSid
    THEN [status |-> "error", output |-> NoPath, message |-> "session_id missing"]
    ELSE IF s \in DOMAIN session_outputs
    THEN [status |-> "ok", output |-> session_outputs[s], message |-> ""]
    ELSE IF Truthy(ErrGet(s))
    THEN [status |-> "error", output |-> NoPath, message |-> ErrGet(s)]
    ELSE IF SessionFile(s) \in DOMAIN files
    THEN [status |-> "ok", output |-> SessionFile(s), message |-> ""]
    ELSE [status |-> "pending", output |-> NoPath, message |-> ""]

\* get_result answering an unfinished session with the status start returns
GetResultValue_Processing(s) ==
    IF s = NoSid
    THEN [status |-> "error", output |-> NoPath, message |-> "session_id missing"]
    ELSE IF Truthy(ErrGet(s))
    THEN [status |-> "error", output |-> NoPath, message |-> ErrGet(s)]
    ELSE IF s \in DOMAIN session_outputs
    THEN [status |-> "ok", output |-> session_outputs[s], message |-> ""]
    ELSE IF SessionFile(s) \in DOMAIN files
    THEN [status |-> "ok", output |-> SessionFile(s), message |-> ""]
    ELSE [status |-> "processing", output |-> NoPath, message |-> ""]

\* The answer get_result(s) gives in the current state.  s = NoSid is the
\* empty session id.  The error table is looked up first, then the success
\* table, then the file <outputs_dir>/<session_id>.jpg.
GetResultValue(s) ==
    IF s = NoSid
    THEN [status |-> "error", output |-> NoPath, message |-> "session_id missing"]
    ELSE IF Truthy(ErrGet(s))
    THEN [status |-> "error", output |-> NoPath, message |-> ErrGet(s)]
    ELSE IF s \in DOMAIN session_outputs
    THEN [status |-> "ok", output |-> session_outputs[s], message |-> ""]
    ELSE IF SessionFile(s) \in DOMAIN files
    THEN [status |-> "ok", output |-> SessionFile(s), message |-> ""]
    ELSE [status |-> "pending", output |-> NoPath, message |-> ""]

\* get_result memoises the file it found into the success table
GetResultMemo(s) ==
    /\ s # NoSid
    /\ ~Truthy(ErrGet(s))
    /\ s \notin DOMAIN session_outputs
    /\ SessionFile(s) \in DOMAIN files

Terminal(r) == r.status \in {"ok", "error"}

GetResult(s) ==
    LET r == GetResultValue(s) IN
    /\ lastPoll' = [sid |-> s, status |-> r.status,
                    sawErr |-> (s \in DOMAIN session_errors),
                    sawOut |-> (s \in DOMAIN session_outputs)]
    /\ IF GetResultMemo(s)
       THEN /\ session_outputs' = DictPut(session_outputs, s, SessionFile(s))
            /\ writes' = [writes EXCEPT ![s] = @ + 1]
       ELSE UNCHANGED <<session_outputs, writes>>
    /\ UNCHANGED <<clock, gemini, klingai, session_errors, files, jobs,
                   issued, accepted, lastStart, vendorCalls>>
    /\ UNCHANGED videoVars
    /\ UNCHANGED routeVars
    /\ UNCHANGED reloadVars
    /\ UNCHANGED sideVars
    /\ UNCHANGED persistVars

\* ------------------------------------------------------ start operations
\* What a start call does besides computing its session id:
\*   status, has_sid : the returned dict's status and whether it carries
\*                     a session_id
\*   spawn           : the background job it starts ("none" when it starts none)
\*   err             : the message it writes into the error table itself
\*                     (NoneMsg when it writes none)
\*   vcall           : whether it makes a vendor call on the caller's thread
Effect(status, has_sid, spawn, err, vcall) ==
    [status |-> status, has_sid |-> has_sid, spawn |-> spawn, err |-> err,
     vcall |-> vcall]

\* _write_data_url_to_file raises ValueError for this user image
UserImageRejected(img) == img # "valid"

\* user_image_data_url and user_image_data_url.startswith("data:image")
IsDataUrl(img) == img \in {"undecodable", "valid"}

StartTryonKlingai(img, garment) ==
    IF klingai = "absent"
    THEN Effect("error", FALSE, "none", NoneMsg, FALSE)
    ELSE IF klingai = "no_keys"
    THEN Effect("error", FALSE, "none", NoneMsg, FALSE)
    ELSE IF UserImageRejected(img)
    THEN Effect("error", FALSE, "none", NoneMsg, FALSE)
    ELSE IF garment = "bad_data"
    THEN Effect("error", FALSE, "none", NoneMsg, FALSE)
    ELSE Effect("processing", TRUE, "klingai", NoneMsg, FALSE)

StartTryonGemini(img, garment) ==
    IF gemini # "absent" /\ IsDataUrl(img)
    THEN IF UserImageRejected(img)
         THEN Effect("error", FALSE, "none", NoneMsg, FALSE)
         ELSE IF garment = "bad_data"
         THEN Effect("error", FALSE, "none", NoneMsg, FALSE)
         ELSE Effect("processing", TRUE, "gemini", NoneMsg, FALSE)
    ELSE \* fallback: preview only, no background job
         Effect("processing", TRUE, "none", NoneMsg, FALSE)

StartAdvancedGemini(img, garment) ==
    IF gemini # "ready"
    THEN Effect("error", TRUE, "none", "Gemini client unavailable", FALSE)
    ELSE IF ~IsDataUrl(img)
    THEN Effect("processing", TRUE, "none", NoneMsg, FALSE)
    ELSE IF UserImageRejected(img)
    THEN Effect("error", FALSE, "none", NoneMsg, FALSE)
    ELSE \* analyze_garment runs on the caller's thread when the reference
         \* image was resolved to a file
         Effect("processing", TRUE, "advanced", NoneMsg, garment = "valid")

StartTwoPhaseGemini(img, garment) ==
    IF gemini # "ready"
    THEN Effect("error", TRUE, "none", "Gemini API unavailable", FALSE)
    ELSE IF ~IsDataUrl(img)
    THEN Effect("error", FALSE, "none", NoneMsg, FALSE)
    ELSE IF UserImageRejected(img)
    THEN Effect("error", FALSE, "none", NoneMsg, FALSE)
    ELSE IF garment # "valid"
    THEN Effect("error", FALSE, "none", "garment reference missing", FALSE)
    ELSE Effect("processing", TRUE, "two_phase", NoneMsg, FALSE)

\* tid tells apart the threads of one session id.  The Gemini adapters go on
\* without a reference image when none was resolved; the KlingAI adapter
\* answers "Garment image not found", so only its job keeps the distinction.
NewJob(tid, sid, kind, garment) ==
    [tid |-> tid, sid |-> sid, kind |-> kind,
     garment |-> (IF kind # "klingai" THEN "any"
                  ELSE IF garment = "valid" THEN "valid" ELSE "none"),
     pc |-> "begin",
     outfile |-> 0]

\* number of start calls made so far
RECURSIVE SumTo(_, _)
SumTo(f, n) == IF n = 0 THEN 0 ELSE f[n] + SumTo(f, n - 1)
Started == SumTo(issued, MaxClock)

\* the part common to the three start operations: session_id is taken from
\* the clock, the effect is applied, and the call returns
StartCall(img, e, garment) ==
    LET sid == clock IN
    /\ Started < MaxStarts
    /\ issued' = [issued EXCEPT ![sid] = @ + 1]
    /\ lastStart' = [img |-> img, session_id |-> sid, status |-> e.status,
                     has_sid |-> e.has_sid,
                     spawned |-> (IF e.spawn = "none" THEN 0 ELSE 1),
                     wrote |-> (e.err # NoneMsg)]
    /\ accepted' = IF e.has_sid /\ e.status = "processing"
                   THEN accepted \cup {sid}
                   ELSE accepted
    /\ IF e.spawn = "none"
       THEN jobs' = jobs
       ELSE jobs' = jobs \cup {NewJob(Started + 1, sid, e.spawn, garment)}
    /\ IF e.err = NoneMsg
       THEN UNCHANGED <<session_errors, writes>>
       ELSE /\ session_errors' = DictPut(session_errors, sid, e.err)
            /\ writes' = [writes EXCEPT ![sid] = @ + 1]
    /\ IF e.vcall
       THEN vendorCalls' = vendorCalls \cup {"caller"}
       ELSE vendorCalls' = vendorCalls
    /\ UNCHANGED <<clock, gemini, klingai, session_outputs, files, lastPoll>>
    /\ UNCHANGED videoVars
    /\ UNCHANGED reloadVars
    /\ UNCHANGED sideVars

\* the flow a start operation routes to and what that flow does
StartEffect(op, vendor, img, garment) ==
    IF vendor = "KlingAI" THEN StartTryonKlingai(img, garment)
    ELSE IF op = "start_tryon" THEN StartTryonGemini(img, garment)
    ELSE IF op = "start_tryon_advanced" THEN StartAdvancedGemini(img, garment)
    ELSE StartTwoPhaseGemini(img, garment)

\* ---- _save_tryon_record
\* what the database does with a write when the database layer is there
DbOutcomes == {"committed", "failed"}

\* a _save_tryon_record that lets the database's exception out
SaveTryonRecord_Raises(records, sid, status, outcome) ==
    IF outcome = "committed"
    THEN [records |-> DictPut(records, sid, status), raised |-> FALSE]
    ELSE [records |-> records, raised |-> TRUE]

\* _save_tryon_record(session_id, ..., status): the table afterwards and
\* whether an exception leaves the method.  Everything after the
\* get_session check is inside try / except Exception, which prints.
SaveTryonRecord(records, sid, status, outcome) ==
    IF outcome = "committed"
    THEN [records |-> DictPut(records, sid, status), raised |-> FALSE]
    ELSE [records |-> records, raised |-> FALSE]

SaveNote(sid, status, outcome, save) ==
    [sid |-> sid, status |-> status, failed |-> (outcome # "committed"),
     raised |-> save.raised]

\* a call of _save_tryon_record outside the jobs' try blocks; with no
\* database layer the method returns at once
SaveStep(sid, status) ==
    IF db # "present"
    THEN UNCHANGED persistVars
    ELSE \E outcome \in DbOutcomes :
             LET save == SaveTryonRecord(tryon_records, sid, status, outcome) IN
             /\ tryon_records' = save.records
             /\ lastSave' = SaveNote(sid, status, outcome, save)
             /\ UNCHANGED db

\* the start operation gets as far as its _save_tryon_record(session_id,
\* user_path=..., status="processing"): the flow's service is there and the
\* user image was written to a file
StartSaves(op, vendor, img) ==
    /\ ~UserImageRejected(img)
    /\ IF vendor = "KlingAI" THEN klingai = "ready"
       ELSE IF op = "start_tryon" THEN gemini # "absent"
       ELSE gemini = "ready"

\* the record a start operation saves; its second save, with garment_path,
\* carries the same status
StartSave(op, vendor, img) ==
    IF StartSaves(op, vendor, img)
    THEN SaveStep(clock, "processing")
    ELSE UNCHANGED persistVars

\* In the three operations below vendor is what _load_vendor_setting
\* returned to the call; the settings file itself is left out of the picture.
start_tryon(vendor, img, garment) ==
    /\ StartCall(img, StartEffect("start_tryon", vendor, img, garment), garment)
    /\ StartSave("start_tryon", vendor, img)
    /\ UNCHANGED routeVars

start_tryon_advanced(vendor, img, garment) ==
    /\ StartCall(img, StartEffect("start_tryon_advanced", vendor, img, garment),
                 garment)
    /\ StartSave("start_tryon_advanced", vendor, img)
    /\ UNCHANGED routeVars

start_tryon_intimate_two_phase(vendor, img, garment) ==
    /\ StartCall(img,
                 StartEffect("start_tryon_intimate_two_phase", vendor, img, garment),
                 garment)
    /\ StartSave("start_tryon_intimate_two_phase", vendor, img)
    /\ UNCHANGED routeVars

\* ---- the start operations with the settings file in the picture
StartOps == {"start_tryon", "start_tryon_advanced",
             "start_tryon_intimate_two_phase"}

\* a start operation that routes on the vendor it was constructed with
RouteVendor_AtConstruction(f, field) == field

\* self._vendor = self._load_vendor_setting(); if self._vendor == "KlingAI":
\*   f     : the settings file at the time of the call
\*   field : self._vendor before the call
RouteVendor(f, field) == LoadVendorSetting(f)

\* a start operation, reading the settings file
RoutedStart(op, img, garment) ==
    LET vendor == RouteVendor(settings, _vendor) IN
    /\ StartCall(img, StartEffect(op, vendor, img, garment), garment)
    /\ StartSave(op, vendor, img)
    /\ _vendor' = LoadVendorSetting(settings)
    /\ lastRoute' = [setting |-> settings.VENDOR_TRYON, form |-> settings.form,
                     before |-> _vendor,
                     flow |-> (IF vendor = "KlingAI" THEN "klingai" ELSE "gemini"),
                     tid |-> Started + 1]
    /\ UNCHANGED settings

\* the administrator saves the settings file with another value for one key
SettingsEdit(key, value) ==
    /\ settings.mtime < 1 + MaxEdits
    /\ value \in SettingValues(key)
    /\ settings.form # "ok" \/ settings[key] # value
    /\ settings' = [settings EXCEPT !.mtime = @ + 1, !.form = "ok",
                                    ![key] = value]
    /\ UNCHANGED <<_vendor, lastRoute>>
    /\ UNCHANGED reloadVars
    /\ UNCHANGED sideVars
    /\ UNCHANGED persistVars
    /\ UNCHANGED tryonVars
    /\ UNCHANGED videoVars

\* a write leaves the file malformed or unreadable
SettingsBreak(form) ==
    /\ settings.mtime < 1 + MaxEdits
    /\ form # "ok"
    /\ form # settings.form
    /\ settings' = [settings EXCEPT !.mtime = @ + 1, !.form = form]
    /\ UNCHANGED <<_vendor, lastRoute>>
    /\ UNCHANGED reloadVars
    /\ UNCHANGED sideVars
    /\ UNCHANGED persistVars
    /\ UNCHANGED tryonVars
    /\ UNCHANGED videoVars

\* ------------------------------------------------------- background jobs
\* A job enters its adapter (begin) and, unless the adapter answers before
\* calling the vendor, waits for the vendor (vendor).  What the job does
\* after the adapter has returned, up to its write into the session tables
\* under the lock, touches nothing another thread reads, so the adapter's
\* return and the write are one step; the thread ends with it.
\*   outfile : the millisecond of gen_<ms>.jpg, fixed when the adapter is
\*             entered

\* with self._lock: self._session_outputs[session_id] = out_public
WriteOk(j, out) ==
    /\ session_outputs' = DictPut(session_outputs, j.sid, out)
    /\ UNCHANGED session_errors
    /\ writes' = [writes EXCEPT ![j.sid] = @ + 1]
    /\ jobs' = jobs \ {j}

\* the adapter returned status error:
\* with self._lock: self._session_errors[session_id] = msg or "try-on failed"
WriteFailed(j, msg) ==
    /\ session_errors' = DictPut(session_errors, j.sid, OrDefault(msg, "try-on failed"))
    /\ UNCHANGED session_outputs
    /\ writes' = [writes EXCEPT ![j.sid] = @ + 1]
    /\ jobs' = jobs \ {j}

\* an except clause that records nothing: the thread just ends
WriteException_Escapes(j, err_msg) ==
    /\ UNCHANGED <<session_outputs, session_errors, writes>>
    /\ jobs' = jobs \ {j}

\* the job's except clause:
\* with self._lock: self._session_errors[session_id] = err_msg
WriteException(j, err_msg) ==
    /\ session_errors' = DictPut(session_errors, j.sid, err_msg)
    /\ UNCHANGED session_outputs
    /\ writes' = [writes EXCEPT ![j.sid] = @ + 1]
    /\ jobs' = jobs \ {j}

\* an adapter that takes every reference image as resolved
GarmentResolved_Always(garment) == TRUE

\* KlingAIService.generate_virtual_tryon resolved garment["image_path"] in
\* one of static_dir, base_dir/app/static, base_dir/apps/web/static:
\* garment_image_path is set and the file exists
GarmentResolved(garment) == garment # "none"

\* the adapter has no client (Gemini) or no keys (KlingAI)
Unready(j) ==
    \/ j.kind \in {"gemini", "advanced"} /\ gemini # "ready"
    \/ j.kind = "klingai" /\ klingai # "ready"

\* only the KlingAI adapter gives up without a reference image
GarmentFound(j) == j.kind = "klingai" => GarmentResolved(j.garment)

\* entry of generate_virtual_tryon / generate_virtual_tryon_simple /
\* KlingAIService.generate_virtual_tryon, up to the vendor call
JobBegin(j) ==
    /\ j.pc = "begin"
    /\ IF j.kind = "two_phase"
       THEN \* garment_info is not defined in start_tryon_intimate_two_phase:
            \* evaluating the call's arguments raises NameError
            WriteException(j, "two_phase error: NameError")
       ELSE IF j.kind \in {"gemini", "advanced"} /\ Unready(j)
       THEN WriteFailed(j, "Gemini client not initialized")
       ELSE IF j.kind = "klingai" /\ Unready(j)
       THEN WriteFailed(j, "KlingAI API keys not configured")
       ELSE IF ~GarmentFound(j)
       THEN WriteFailed(j, "Garment image not found")
       ELSE /\ jobs' = (jobs \ {j}) \cup {[j EXCEPT !.pc = "vendor", !.outfile = clock]}
            /\ UNCHANGED <<session_outputs, session_errors, writes>>
    /\ IF j.kind = "two_phase" \/ Unready(j) \/ ~GarmentFound(j)
       THEN \* the job wrote its error and saves the record
            SaveStep(j.sid, "error")
       ELSE UNCHANGED persistVars
    /\ UNCHANGED <<clock, gemini, klingai, files, issued, accepted, lastStart,
                   vendorCalls, lastPoll>>
    /\ UNCHANGED videoVars
    /\ UNCHANGED routeVars
    /\ UNCHANGED reloadVars
    /\ UNCHANGED sideVars

\* what the vendor call and the handling of its response can come to
\*   bytes        : the response carries an image
\*   refused      : no image, the response carries a safety-block signal
\*   no_image     : no image and no safety signal
\*   api_error    : the call itself fails (timeout, network, HTTP status)
\*   null_message : KlingAI answers a non-200 status whose body has a null
\*                  message
\*   raise        : an exception outside the adapter's own try block
VendorOutcomes(kind) ==
    CASE kind = "gemini"   -> {"bytes", "refused", "no_image", "api_error"}
      [] kind = "advanced" -> {"bytes", "refused", "no_image", "api_error", "raise"}
      [] kind = "klingai"  -> {"bytes", "no_image", "api_error", "null_message"}
      [] OTHER             -> {}

\* the message of the adapter's error result
AdapterMessage(kind, outcome) ==
    CASE outcome = "refused" /\ kind = "gemini" -> "generation refused"
      [] outcome = "refused" /\ kind = "advanced" -> "cannot generate"
      [] outcome = "no_image" /\ kind = "advanced" -> "cannot generate"
      [] outcome = "no_image" /\ kind # "advanced" -> "no image returned"
      [] outcome = "api_error" -> "api error"
      [] OTHER -> NoneMsg

\* an adapter whose refusal result also names the output file
AdapterResult_Both(kind, outcome, outfile) ==
    IF outcome = "raise"
    THEN [raised |-> TRUE, status |-> "none", output_path |-> NoPath,
          message |-> NoneMsg]
    ELSE IF outcome = "bytes"
    THEN [raised |-> FALSE, status |-> "ok", output_path |-> GenPath(outfile),
          message |-> NoneMsg]
    ELSE [raised |-> FALSE, status |-> "error",
          output_path |-> (IF outcome = "refused" THEN GenPath(outfile) ELSE NoPath),
          message |-> AdapterMessage(kind, outcome)]

\* what the adapter hands back to the job: the result dict, or an exception
\* that left the adapter (raised)
AdapterResult(kind, outcome, outfile) ==
    IF outcome = "raise"
    THEN [raised |-> TRUE, status |-> "none", output_path |-> NoPath,
          message |-> NoneMsg]
    ELSE IF outcome = "bytes"
    THEN [raised |-> FALSE, status |-> "ok", output_path |-> GenPath(outfile),
          message |-> NoneMsg]
    ELSE [raised |-> FALSE, status |-> "error", output_path |-> NoPath,
          message |-> AdapterMessage(kind, outcome)]

\* what the job does with it: the try body's two branches and the except
\* clause
JobHandle(j, res) ==
    IF res.raised
    THEN WriteException(j, "error: OSError")
    ELSE IF res.status = "ok" /\ res.output_path # NoPath
    THEN WriteOk(j, res.output_path)
    ELSE WriteFailed(j, res.message)

\* the status the job saves with the record after handling the result
SavedStatus(res) ==
    IF ~res.raised /\ res.status = "ok" /\ res.output_path # NoPath
    THEN "ok" ELSE "error"

\* The try body wrote the result into its table and _save_tryon_record then
\* raised: the except clause writes err_msg for the session as well.
JobHandleSaveRaised(j, res) ==
    /\ session_outputs' = IF SavedStatus(res) = "ok"
                          THEN DictPut(session_outputs, j.sid, res.output_path)
                          ELSE session_outputs
    /\ session_errors' = DictPut(session_errors, j.sid, "error: OperationalError")
    /\ writes' = [writes EXCEPT ![j.sid] = @ + 2]
    /\ jobs' = jobs \ {j}

\* the job handles the adapter's result and saves the record; the save is
\* the last statement of the try body's branch, or of the except clause
JobHandleAndSave(j, res) ==
    IF db # "present"
    THEN JobHandle(j, res) /\ UNCHANGED persistVars
    ELSE \E outcome \in DbOutcomes :
             LET save == SaveTryonRecord(tryon_records, j.sid, SavedStatus(res),
                                         outcome)
             IN /\ IF save.raised /\ ~res.raised
                   THEN JobHandleSaveRaised(j, res)
                   ELSE JobHandle(j, res)
                /\ tryon_records' = save.records
                /\ lastSave' = SaveNote(j.sid, SavedStatus(res), outcome, save)
                /\ UNCHANGED db

\* the vendor call returns, the adapter returns, the job writes its result
JobVendor(j, outcome) ==
    /\ j.pc = "vendor"
    /\ outcome \in VendorOutcomes(j.kind)
    /\ vendorCalls' = vendorCalls \cup {"job"}
    /\ IF outcome = "bytes"
       THEN files' = FileWrite(GenPath(j.outfile), j.sid)
       ELSE files' = files
    /\ JobHandleAndSave(j, AdapterResult(j.kind, outcome, j.outfile))
    /\ UNCHANGED <<clock, gemini, klingai, issued, accepted, lastStart,
                   lastPoll>>
    /\ UNCHANGED videoVars
    /\ UNCHANGED routeVars
    /\ UNCHANGED reloadVars
    /\ UNCHANGED sideVars

JobStep ==
    \E j \in jobs :
        \/ JobBegin(j)
        \/ \E outcome \in VendorOutcomes(j.kind) : JobVendor(j, outcome)

\* ------------------------------------------------- image-to-video adapter
\* str.lower() on the characters that occur in the model identifiers
LowerChar(c) ==
    CASE c = "K" -> "k"
      [] c = "V" -> "v"
      [] c = "T" -> "t"
      [] c = "U" -> "u"
      [] c = "R" -> "r"
      [] c = "B" -> "b"
      [] c = "O" -> "o"
      [] OTHER -> c

LowerSeq(m) == [i \in 1..Len(m) |-> LowerChar(m[i])]

\* pat in m, for Python strings
Contains(m, pat) ==
    \E i \in 1..(Len(m) - Len(pat) + 1) : SubSeq(m, i, i + Len(pat) - 1) = pat

\* "turbo" not in self.model.lower(), without the call to lower()
ModeInPayload_CaseSensitive(m) == ~Contains(m, TurboWord)

\* "turbo" not in self.model.lower(): the payload gets the field "mode"
ModeInPayload(m) == ~Contains(LowerSeq(m), TurboWord)

\* the branch poll_video_task takes for a task_status
VideoPollClass(word) ==
    IF word \in {"succeed", "success"} THEN "done"
    ELSE IF word \in {"failed", "error"} THEN "failed"
    ELSE IF word \in {"processing", "submitted", "pending"} THEN "processing"
    ELSE "unknown"

\* the branch KlingAIService._poll_task_result takes for a task_status:
\* it returns the result, gives up, or sleeps and polls again
PollTaskClass(word) ==
    IF word \in {"completed", "succeed", "success"} THEN "done"
    ELSE IF word \in {"failed", "error"} THEN "failed"
    ELSE "processing"

\* the returned status of a generate_video call, whether it built a payload
\* and sent it, and the payload's model_name and whether it has a mode
GenAnswer(duration, status, sent, built, model_name, has_mode) ==
    [duration |-> duration, status |-> status, sent |-> sent, built |-> built,
     model_name |-> model_name, has_mode |-> has_mode]

\* The settings file gets another KLINGAI_VIDEO_MODEL.  generate_video
\* reloads the settings first thing and is the only reader of self.model, so
\* video_model is the identifier the next generate_video call works with.
SettingsChange(m) ==
    /\ m # video_model
    /\ video_model' = m
    /\ UNCHANGED <<video_keys, task_status, video_files, downloads,
                   firstCompleted, lastGen, lastVideoPoll>>
    /\ UNCHANGED tryonVars
    /\ UNCHANGED routeVars
    /\ UNCHANGED reloadVars
    /\ UNCHANGED sideVars
    /\ UNCHANGED persistVars

\* generate_video(image_path, prompt, duration)
\*   image : "missing" (no file), "unreadable" (_image_to_base64 gives None),
\*           "ok"
\*   http  : what the POST comes to
generate_video(image, duration, http) ==
    /\ IF ~video_keys
       THEN /\ lastGen' = GenAnswer(duration, "error", FALSE, FALSE, << >>, FALSE)
            /\ UNCHANGED <<task_status, downloads, firstCompleted, lastVideoPoll>>
       ELSE IF image = "missing"
       THEN /\ lastGen' = GenAnswer(duration, "error", FALSE, FALSE, << >>, FALSE)
            /\ UNCHANGED <<task_status, downloads, firstCompleted, lastVideoPoll>>
       ELSE IF image = "unreadable"
       THEN /\ lastGen' = GenAnswer(duration, "error", FALSE, FALSE, << >>, FALSE)
            /\ UNCHANGED <<task_status, downloads, firstCompleted, lastVideoPoll>>
       ELSE IF http = "task"
       THEN \* the vendor created a task: it is the one polled from now on
            /\ lastGen' = GenAnswer(duration, "processing", TRUE, TRUE,
                                    video_model, ModeInPayload(video_model))
            /\ task_status' = "submitted"
            /\ downloads' = 0
            /\ firstCompleted' = NoVideo
            /\ lastVideoPoll' = NoVideoPoll
       ELSE \* non-200 status, no task_id in the body, timeout, exception
            /\ lastGen' = GenAnswer(duration, "error", TRUE, TRUE,
                                    video_model, ModeInPayload(video_model))
            /\ UNCHANGED <<task_status, downloads, firstCompleted, lastVideoPoll>>
    /\ UNCHANGED <<video_keys, video_model, video_files>>
    /\ UNCHANGED tryonVars
    /\ UNCHANGED routeVars
    /\ UNCHANGED reloadVars
    /\ UNCHANGED sideVars
    /\ UNCHANGED persistVars

\* the vendor works on the task; a finished task keeps its status
VendorAdvance(word) ==
    /\ task_status \in ProcessingWords \cup {"queued"}
    /\ task_status' = word
    /\ UNCHANGED <<video_keys, video_model, video_files, downloads,
                   firstCompleted, lastGen, lastVideoPoll>>
    /\ UNCHANGED tryonVars
    /\ UNCHANGED routeVars
    /\ UNCHANGED reloadVars
    /\ UNCHANGED sideVars
    /\ UNCHANGED persistVars

PollAnswer(word, class, status, output) ==
    [word |-> word, class |-> class, status |-> status, output |-> output]

\* poll_video_task(task_id) for the latest task
\*   http     : what the GET of the task comes to
\*   url      : the body of a finished task carries a video URL
\*   download : what the GET of the video URL comes to
poll_video_task(http, url, download) ==
    LET class == VideoPollClass(task_status) IN
    /\ task_status # NoTask
    /\ IF ~video_keys
       THEN /\ lastVideoPoll' = PollAnswer("none", "none", "error", NoVideo)
            /\ UNCHANGED <<video_files, downloads, firstCompleted>>
       ELSE IF http # "200"
       THEN \* non-200 status, or an exception caught by the except clause
            /\ lastVideoPoll' = PollAnswer("none", "none", "error", NoVideo)
            /\ UNCHANGED <<video_files, downloads, firstCompleted>>
       ELSE IF class = "done" /\ url
       THEN IF download = "200"
            THEN \* the video is downloaded and written to video_<ms>.mp4
                 /\ downloads < MaxDownloads
                 /\ downloads' = downloads + 1
                 /\ video_files' = video_files \cup {clock}
                 /\ lastVideoPoll' = PollAnswer(task_status, class,
                                                "completed", clock)
                 /\ firstCompleted' = IF firstCompleted = NoVideo
                                      THEN clock ELSE firstCompleted
            ELSE \* non-200 download, or an exception caught by the
                 \* except clause
                 /\ lastVideoPoll' = PollAnswer(task_status, class,
                                                "error", NoVideo)
                 /\ UNCHANGED <<video_files, downloads, firstCompleted>>
       ELSE IF class = "done"
       THEN /\ lastVideoPoll' = PollAnswer(task_status, class, "error", NoVideo)
            /\ UNCHANGED <<video_files, downloads, firstCompleted>>
       ELSE /\ lastVideoPoll' = PollAnswer(task_status, class, class, NoVideo)
            /\ UNCHANGED <<video_files, downloads, firstCompleted>>
    /\ UNCHANGED <<video_keys, video_model, task_status, lastGen>>
    /\ UNCHANGED tryonVars
    /\ UNCHANGED routeVars
    /\ UNCHANGED reloadVars
    /\ UNCHANGED sideVars
    /\ UNCHANGED persistVars

\* ------------------------------------------------------ settings hot-reload
\* x or old, for strings
Or(x, old) == IF x # "" THEN x ELSE old

\* x or old, for model identifiers
OrSeq(x, old) == IF x # << >> THEN x ELSE old

\* a method that reads the file at every call
Stale_EveryCall(f, recorded) == TRUE

\* not (self._settings_mtime and mtime <= self._settings_mtime): the method
\* goes on to read the file.  A recorded mtime of 0 stands for None.
Stale(f, recorded) == ~(recorded # 0 /\ f.mtime <= recorded)

\* _init_client: a client for the key, None when there is no key
InitClient(key) == key

\* the fields of the GeminiService object
GeminiFields ==
    [api_key |-> gemini_api_key, model_name |-> gemini_model_name,
     llm_name |-> gemini_llm_name, llm_model_name |-> gemini_llm_model_name,
     client |-> gemini_client, mtime |-> gemini_settings_mtime]

\* the fields of the KlingAIVideoService object that a reload assigns
\* (access_key and secret_key are read like model and are left out)
VideoFields ==
    [model |-> video_model, mode |-> video_mode, duration |-> video_duration,
     mtime |-> video_settings_mtime]

\* GeminiService._reload_settings_if_changed: the fields after the call.
\* json.loads or read_text raising is caught by the method's except clause
\* before any field is assigned.
GeminiReloadValue(g, f) ==
    IF ~Stale(f, g.mtime) THEN g
    ELSE IF f.form # "ok" THEN g
    ELSE LET a == [g EXCEPT !.api_key = Or(f.GEMINI_API_KEY, @),
                            !.model_name = Or(f.GEMINI_MODEL, @),
                            !.llm_model_name = Or(f.GEMINI_LLM, @),
                            !.mtime = f.mtime]
         IN IF \/ a.api_key # g.api_key
               \/ a.model_name # g.model_name
               \/ a.llm_model_name # g.llm_model_name
            THEN [a EXCEPT !.client = InitClient(a.api_key)]
            ELSE a

\* KlingAIVideoService._reload_settings_if_changed: the fields after the
\* call.  model and mode are assigned before int() is applied to the
\* duration; when int() raises, the except clause ends the method there.
VideoReloadValue(v, f) ==
    IF ~Stale(f, v.mtime) THEN v
    ELSE IF f.form # "ok" THEN v
    ELSE LET a == [v EXCEPT !.model = OrSeq(f.KLINGAI_VIDEO_MODEL, @),
                            !.mode = Or(f.KLINGAI_VIDEO_MODE, @)]
             d == IF f.KLINGAI_VIDEO_DURATION = "" THEN v.duration
                  ELSE ParseInt(f.KLINGAI_VIDEO_DURATION)
         IN IF d = NoInt
            THEN a
            ELSE [a EXCEPT !.duration = d, !.mtime = f.mtime]

\* the call reads the file, assigns the fields and records the mtime
GeminiReloadRuns(g, f) == Stale(f, g.mtime) /\ f.form = "ok"

VideoReloadRuns(v, f) ==
    /\ Stale(f, v.mtime)
    /\ f.form = "ok"
    /\ (f.KLINGAI_VIDEO_DURATION # ""
           => ParseInt(f.KLINGAI_VIDEO_DURATION) # NoInt)

\* this call of the method: the file version it saw, and whether it ran
\* through
ReloadNote(f, runs) == [seen |-> f.mtime, loaded |-> runs]

\* the GeminiService fields become g
GeminiAssign(g) ==
    /\ gemini_api_key' = g.api_key
    /\ gemini_model_name' = g.model_name
    /\ gemini_llm_name' = g.llm_name
    /\ gemini_llm_model_name' = g.llm_model_name
    /\ gemini_client' = g.client
    /\ gemini_settings_mtime' = g.mtime
    /\ lastReload' = [lastReload EXCEPT
                          !["gemini"] =
                              ReloadNote(settings,
                                         GeminiReloadRuns(GeminiFields, settings))]

\* GeminiService._reload_settings_if_changed()
GeminiReload ==
    /\ GeminiAssign(GeminiReloadValue(GeminiFields, settings))
    /\ UNCHANGED <<video_mode, video_duration, video_settings_mtime, lastCall>>
    /\ UNCHANGED routeVars
    /\ UNCHANGED tryonVars
    /\ UNCHANGED videoVars
    /\ UNCHANGED sideVars
    /\ UNCHANGED persistVars

\* the method calls the text model (self.llm_name)
UsesLlm(method) ==
    method \in {"generate_virtual_tryon_two_stage",
                "analyze_user_photo_suitability"}

\* the method calls the image model (self.model_name)
UsesImageModel(method) == method # "analyze_user_photo_suitability"

\* A GeminiService method that calls the vendor: it reloads the settings
\* first thing, returns early without a key or a client, and calls
\* self.client.models.generate_content with self.llm_name and / or
\* self.model_name.
GeminiCall(method) ==
    LET g == GeminiReloadValue(GeminiFields, settings) IN
    /\ GeminiAssign(g)
    /\ lastCall' = IF g.api_key = "" \/ g.client = ""
                   THEN [method |-> method, reached |-> FALSE, key |-> "",
                         model |-> "", llm |-> ""]
                   ELSE [method |-> method, reached |-> TRUE, key |-> g.client,
                         model |-> (IF UsesImageModel(method) THEN g.model_name
                                    ELSE ""),
                         llm |-> (IF UsesLlm(method) THEN g.llm_name ELSE "")]
    /\ UNCHANGED <<video_mode, video_duration, video_settings_mtime>>
    /\ UNCHANGED routeVars
    /\ UNCHANGED tryonVars
    /\ UNCHANGED videoVars
    /\ UNCHANGED sideVars
    /\ UNCHANGED persistVars

\* KlingAIVideoService._reload_settings_if_changed()
VideoReload ==
    LET v == VideoReloadValue(VideoFields, settings) IN
    /\ video_model' = v.model
    /\ video_mode' = v.mode
    /\ video_duration' = v.duration
    /\ video_settings_mtime' = v.mtime
    /\ lastReload' = [lastReload EXCEPT
                          !["video"] =
                              ReloadNote(settings,
                                         VideoReloadRuns(VideoFields, settings))]
    /\ UNCHANGED <<gemini_api_key, gemini_model_name, gemini_llm_name,
                   gemini_llm_model_name, gemini_client, gemini_settings_mtime,
                   lastCall>>
    /\ UNCHANGED <<video_keys, task_status, video_files, downloads,
                   firstCompleted, lastGen, lastVideoPoll>>
    /\ UNCHANGED routeVars
    /\ UNCHANGED tryonVars
    /\ UNCHANGED sideVars
    /\ UNCHANGED persistVars

\* ---------------------------------------------------------- specification
Next ==
    \/ Tick
    \/ \E vendor \in Vendors, img \in UserImages, garment \in Garments :
           start_tryon(vendor, img, garment)
    \/ \E vendor \in Vendors, img \in UserImages, garment \in Garments :
           start_tryon_advanced(vendor, img, garment)
    \/ \E vendor \in Vendors, img \in UserImages, garment \in Garments :
           start_tryon_intimate_two_phase(vendor, img, garment)
    \/ \E s \in SIDs \cup {NoSid} : GetResult(s)
    \/ JobStep

Spec == Init /\ [][Next]_vars

\* threads are scheduled fairly and every vendor call returns or fails
FairSpec == Spec /\ WF_vars(JobStep)

\* the vendor call of a job of this kind is made under a timeout
HasTimeout(kind) == kind \in {"gemini", "klingai"}

JobBeginStep == \E j \in jobs : JobBegin(j)

TimedVendorReturn ==
    \E j \in jobs :
        /\ HasTimeout(j.kind)
        /\ \E outcome \in VendorOutcomes(j.kind) : JobVendor(j, outcome)

\* the clients keep polling get_result
PollStep == \E s \in SIDs \cup {NoSid} : GetResult(s)

\* threads are scheduled fairly; a vendor call is only sure to come back
\* when the code waits for it under a timeout
TimeoutSpec ==
    Spec /\ WF_vars(JobBeginStep) /\ WF_vars(TimedVendorReturn)
         /\ WF_vars(PollStep)

\* the video adapter on its own: the orchestrator is idle
VideoInit ==
    /\ clock = 1
    /\ gemini = "ready"
    /\ klingai = "ready"
    /\ session_outputs = <<>>
    /\ session_errors = <<>>
    /\ files = <<>>
    /\ jobs = {}
    /\ issued = [s \in SIDs |-> 0]
    /\ accepted = {}
    /\ lastStart = NoStart
    /\ vendorCalls = {}
    /\ writes = [s \in SIDs |-> 0]
    /\ lastPoll = NoPoll
    /\ video_keys \in BOOLEAN
    /\ video_model \in VideoModels
    /\ VideoIdle
    /\ PersistIdle("absent")
    /\ SideIdle
    /\ SettingsIdle

VideoNext ==
    \/ Tick
    \/ \E m \in VideoModels : SettingsChange(m)
    \/ \E image \in {"missing", "unreadable", "ok"}, duration \in Durations,
          http \in {"task", "http_error", "timeout"} :
           generate_video(image, duration, http)
    \/ \E word \in VendorWords : VendorAdvance(word)
    \/ \E http \in {"200", "status_error", "exception"}, url \in BOOLEAN,
          download \in {"200", "not200", "raise"} :
           poll_video_task(http, url, download)

VideoSpec == VideoInit /\ [][VideoNext]_vars

\* the orchestrator's start operations with the settings file; the file
\* names either vendor when the service is built
RouteInit ==
    /\ clock = 1
    /\ gemini = "ready"
    /\ klingai = "ready"
    /\ session_outputs = <<>>
    /\ session_errors = <<>>
    /\ files = <<>>
    /\ jobs = {}
    /\ issued = [s \in SIDs |-> 0]
    /\ accepted = {}
    /\ lastStart = NoStart
    /\ vendorCalls = {}
    /\ writes = [s \in SIDs |-> 0]
    /\ lastPoll = NoPoll
    /\ video_keys = TRUE
    /\ video_model = KlingV1
    /\ VideoIdle
    /\ PersistIdle("absent")
    /\ SideIdle
    /\ \E v \in {"Gemini", "KlingAI"} :
           settings = [DefaultSettings EXCEPT !.VENDOR_TRYON = v]
    /\ _vendor = LoadVendorSetting(settings)
    /\ lastRoute = NoRoute
    /\ Loaded(settings)
    /\ lastReload = [svc \in {"gemini", "video"} |-> NoReload]
    /\ lastCall = NoCall

RouteNext ==
    \/ Tick
    \/ \E v \in VendorSettings : SettingsEdit("VENDOR_TRYON", v)
    \/ \E form \in SettingsForms : SettingsBreak(form)
    \/ \E op \in StartOps, img \in UserImages, garment \in Garments :
           RoutedStart(op, img, garment)

RouteSpec == RouteInit /\ [][RouteNext]_vars

\* the orchestrator with the database layer in place: every write of a
\* try-on record is committed or fails
PersistInit ==
    /\ clock = 1
    /\ gemini = "ready"
    /\ klingai = "ready"
    /\ session_outputs = <<>>
    /\ session_errors = <<>>
    /\ files = <<>>
    /\ jobs = {}
    /\ issued = [s \in SIDs |-> 0]
    /\ accepted = {}
    /\ lastStart = NoStart
    /\ vendorCalls = {}
    /\ writes = [s \in SIDs |-> 0]
    /\ lastPoll = NoPoll
    /\ video_keys = TRUE
    /\ video_model = KlingV1
    /\ VideoIdle
    /\ PersistIdle("present")
    /\ SideIdle
    /\ SettingsIdle

PersistSpec == PersistInit /\ [][Next]_vars

\* the adapters' settings hot-reload: the services were built from the
\* default file, the file is edited and the adapters' methods are called
ServicesBuilt ==
    /\ clock = 1
    /\ gemini = "ready"
    /\ klingai = "ready"
    /\ session_outputs = <<>>
    /\ session_errors = <<>>
    /\ files = <<>>
    /\ jobs = {}
    /\ issued = [s \in SIDs |-> 0]
    /\ accepted = {}
    /\ lastStart = NoStart
    /\ vendorCalls = {}
    /\ writes = [s \in SIDs |-> 0]
    /\ lastPoll = NoPoll
    /\ video_keys = TRUE
    /\ video_model = KlingV1
    /\ VideoIdle
    /\ PersistIdle("absent")
    /\ SettingsIdle

ReloadInit == ServicesBuilt /\ SideIdle

ReloadNext ==
    \/ \E key \in AdapterKeys : \E value \in SettingValues(key) :
           SettingsEdit(key, value)
    \/ \E form \in SettingsForms : SettingsBreak(form)
    \/ GeminiReload
    \/ \E method \in GeminiMethods : GeminiCall(method)
    \/ VideoReload

ReloadSpec == ReloadInit /\ [][ReloadNext]_vars

\* ------------------------------------------------ TryOnHistoryRepository
\* The keyword arguments of update_record as the routes pass them; "" stands
\* for None, the argument left out.
\*   TryonOk     : poll_try_on on status ok
\*   TryonFailed : poll_try_on on status error
\*   VideoDone   : the video poll route on status completed
TryonOk == [result_photo_path |-> "out.jpg", video_path |-> "",
            status |-> "success", error_message |-> ""]
TryonFailed == [result_photo_path |-> "", video_path |-> "",
                status |-> "failed", error_message |-> "try-on failed"]
VideoDone == [result_photo_path |-> "", video_path |-> "video.mp4",
              status |-> "", error_message |-> ""]
UpdateArgs == {TryonOk, TryonFailed, VideoDone}

RecordFields == {"result_photo_path", "video_path", "status", "error_message"}

\* if <argument> is not None: record[<field>] = <argument>
ApplyUpdate(record, args) ==
    [f \in RecordFields |-> IF args[f] # "" THEN args[f] ELSE record[f]]

\* _load_records: the parsed list, or [] when the file does not parse
LoadRecords(file) == IF file.ok THEN file.records ELSE <<>>

HistoryCalls == Cardinality(history_calls) + Cardinality(history_done)

\* update_record touches the data file and nothing else
HistoryOnly ==
    UNCHANGED <<lock, lock_threads, gemini_call, roi, kling_poll, persistVars,
                reloadVars, routeVars, tryonVars, videoVars>>

\* a request thread enters update_record
UpdateBegin(record_id, args) ==
    /\ HistoryCalls < MaxUpdates
    /\ history_calls' = history_calls \cup
           {[tid |-> HistoryCalls + 1, record_id |-> record_id, args |-> args,
             pc |-> "load", records |-> <<>>]}
    /\ UNCHANGED <<history_file, history_done>>
    /\ HistoryOnly

\* records = self._load_records() and the loop over them: the matching
\* record is changed in the thread's own list; with no match the call
\* returns None
UpdateLoad(c) ==
    LET records == LoadRecords(history_file) IN
    /\ c.pc = "load"
    /\ IF c.record_id \in DOMAIN records
       THEN /\ history_calls' = (history_calls \ {c}) \cup
                   {[c EXCEPT !.pc = "save",
                              !.records = [records EXCEPT ![c.record_id] =
                                              ApplyUpdate(@, c.args)]]}
            /\ UNCHANGED history_done
       ELSE /\ history_calls' = history_calls \ {c}
            /\ history_done' = history_done \cup
                   {[tid |-> c.tid, record_id |-> c.record_id, args |-> c.args,
                     returned |-> FALSE]}
    /\ UNCHANGED history_file
    /\ HistoryOnly

\* _save_records, first half: write_text opens the file for writing, which
\* empties it
UpdateTruncate(c) ==
    /\ c.pc = "save"
    /\ history_file' = [history_file EXCEPT !.ok = FALSE]
    /\ history_calls' = (history_calls \ {c}) \cup {[c EXCEPT !.pc = "write"]}
    /\ UNCHANGED history_done
    /\ HistoryOnly

\* _save_records, second half: the thread's list is written and the file
\* closed; update_record returns the record
UpdateWrite(c) ==
    /\ c.pc = "write"
    /\ history_file' = [ok |-> TRUE, records |-> c.records]
    /\ history_calls' = history_calls \ {c}
    /\ history_done' = history_done \cup
           {[tid |-> c.tid, record_id |-> c.record_id, args |-> c.args,
             returned |-> TRUE]}
    /\ HistoryOnly

HistoryInit == ReloadInit

HistoryNext ==
    \/ \E record_id \in RecordIds : \E args \in UpdateArgs :
           UpdateBegin(record_id, args)
    \/ \E c \in history_calls : UpdateLoad(c)
    \/ \E c \in history_calls : UpdateTruncate(c)
    \/ \E c \in history_calls : UpdateWrite(c)

HistorySpec == HistoryInit /\ [][HistoryNext]_vars

\* ------------------------------------------- the lock of the session tables
\* The threads that touch _session_outputs and _session_errors, statement by
\* statement.  Each access is the body of a "with self._lock:" block.
\*   get_result : enter -> read -> (file -> (enter_memo -> memo)) -> done
\*   job        : vendor -> enter -> write -> save -> done
\*   start      : enter -> write -> done   (the error a start path records)
ThreadKinds == {"get_result", "job", "start"}

\* a thread at one of these is reading or writing a session table
AccessPcs == {"read", "memo", "write"}

\* a thread at one of these is at the head of a with self._lock: block
EnterPcs == {"enter", "enter_memo"}

FirstPc(kind) == IF kind = "job" THEN "vendor" ELSE "enter"

\* the body of the with block the thread enters
BlockBody(kind, pc) ==
    IF pc = "enter_memo" THEN "memo"
    ELSE IF kind = "get_result" THEN "read"
    ELSE "write"

\* where the thread can be after the block: get_result returns from inside
\* its first block when the session is in a table, and goes on to the file
\* check otherwise; a job saves the record
AfterBlock(kind, pc) ==
    CASE pc = "read" -> {"done", "file"}
      [] pc = "memo" -> {"done"}
      [] pc = "write" /\ kind = "job" -> {"save"}
      [] OTHER -> {"done"}

\* the statements outside the lock: the adapter call, candidate.exists(),
\* _save_tryon_record
AfterOutside(pc) ==
    CASE pc = "vendor" -> {"enter"}
      [] pc = "file" -> {"enter_memo", "done"}
      [] pc = "save" -> {"done"}
      [] OTHER -> {}

\* a lock that lets every thread in
CanEnter_Unlocked(holder) == TRUE

\* threading.Lock.acquire returns when no thread holds the lock
CanEnter(holder) == holder = 0

\* the lock threads touch the session tables' lock and nothing else here
LockOnly ==
    UNCHANGED <<history_file, history_calls, history_done, gemini_call, roi,
                kling_poll, persistVars, reloadVars, routeVars, tryonVars,
                videoVars>>

\* a request or a background thread begins
ThreadSpawn(kind) ==
    /\ Len(lock_threads) < MaxThreads
    /\ lock_threads' = Append(lock_threads, [kind |-> kind, pc |-> FirstPc(kind)])
    /\ UNCHANGED lock
    /\ LockOnly

\* with self._lock: __enter__
LockAcquire(t) ==
    /\ lock_threads[t].pc \in EnterPcs
    /\ CanEnter(lock)
    /\ lock' = t
    /\ lock_threads' = [lock_threads EXCEPT
           ![t].pc = BlockBody(lock_threads[t].kind, lock_threads[t].pc)]
    /\ LockOnly

\* the block's statements, then __exit__ (also on a return inside the block)
LockRelease(t) ==
    /\ lock_threads[t].pc \in AccessPcs
    /\ \E pc \in AfterBlock(lock_threads[t].kind, lock_threads[t].pc) :
           lock_threads' = [lock_threads EXCEPT ![t].pc = pc]
    /\ lock' = 0
    /\ LockOnly

\* a statement outside the lock
ThreadOutside(t) ==
    /\ \E pc \in AfterOutside(lock_threads[t].pc) :
           lock_threads' = [lock_threads EXCEPT ![t].pc = pc]
    /\ UNCHANGED lock
    /\ LockOnly

LockInit == ReloadInit

LockNext ==
    \/ \E kind \in ThreadKinds : ThreadSpawn(kind)
    \/ \E t \in DOMAIN lock_threads : LockAcquire(t)
    \/ \E t \in DOMAIN lock_threads : LockRelease(t)
    \/ \E t \in DOMAIN lock_threads : ThreadOutside(t)

LockSpec == LockInit /\ [][LockNext]_vars

\* ------------------------------------------ GeminiService generation calls
\* _extract_image_bytes_from_sdk(response)
ExtractSdk(resp) == ~resp.raised /\ resp.image = "sdk"

\* _extract_image_data(_response_to_dict(response))
ExtractB64(resp) == ~resp.raised /\ resp.image \in {"sdk", "b64"}

\* _check_safety_ratings: the reasons it lists.  A finish_reason of STOP or
\* IMAGE_OTHER is skipped; one that names SAFETY, RECITATION, PROHIBITED or
\* BLOCKED is listed as "...finish_reason=..."; a HIGH or MEDIUM rating is
\* listed as "<category>=<probability>".  No reasons: None.
CheckSafetyRatings(resp) ==
    (IF resp.finish \notin {"STOP", "IMAGE_OTHER"} THEN {"finish_reason"} ELSE {})
        \cup (IF resp.rating THEN {"rating"} ELSE {})

\* if safety_info: if "IMAGE_OTHER" in safety_info or "finish_reason" in safety_info
RefusalFlagged(resp) ==
    LET safety_info == CheckSafetyRatings(resp) IN
    "IMAGE_OTHER" \in safety_info \/ "finish_reason" \in safety_info

\* _should_use_lower_body_roi / _should_use_upper_body_roi: return False
ShouldUseRoi == FALSE

\* the region-of-interest path applies to the call
NeedsRoi(region) == region \in {"upper", "lower"} \/ ShouldUseRoi

\* what can happen inside _generate_on_lower_body_roi / _upper_body_roi
\*   crop_failed  : opening or cropping the image raised (no vendor call)
\*   raise        : the vendor call raised
\*   no_image     : neither extraction yields bytes
\*   paste_failed : resizing, pasting or saving raised
RoiOutcomes == {"ok", "crop_failed", "raise", "no_image", "paste_failed"}

\* the method's return value: the ok result, or None from the except
\* clause and from the final return
RoiReturns(outcome) == IF outcome = "ok" THEN "ok" ELSE "none"

\* the call returns
Done(c, status, mode) == [c EXCEPT !.pc = "done", !.status = status, !.mode = mode]

\* two_stage after a full-frame response without SDK bytes and without an
\* ROI result: the safety fallback when the refusal is flagged, else the
\* base64 view of the same response, else no_image
AfterNoImage(c, resp) ==
    IF RefusalFlagged(resp)
    THEN [c EXCEPT !.pc = IF NeedsRoi(c.region) THEN "roi_safe" ELSE "retry"]
    ELSE IF ExtractB64(resp)
    THEN Done(c, "ok", "two_stage")
    ELSE Done(c, "error", "no_image")

\* a retry answer without an image starts the safety fallback again
AfterRetry_Again(c, resp) ==
    IF ExtractSdk(resp) \/ ExtractB64(resp)
    THEN Done(c, "ok", "two_stage_fallback")
    ELSE [c EXCEPT !.pc = "retry"]

\* two_stage after the retry's response: ok from either extraction, else
\* (an exception in the fallback block included) the refusal result
AfterRetry(c, resp) ==
    IF ExtractSdk(resp) \/ ExtractB64(resp)
    THEN Done(c, "ok", "two_stage_fallback")
    ELSE Done(c, "error", "generation_refused")

\* every generation call touches gemini_call and nothing else
CallOnly ==
    UNCHANGED <<history_file, history_calls, history_done, lock, lock_threads,
                roi, kling_poll, persistVars, reloadVars, routeVars, tryonVars,
                videoVars>>

\* generate_virtual_tryon_two_stage up to the first image-generation call
\*   stage1 : the description call's outcome
TwoStageBegin(region, stage1) ==
    LET c == [gemini_call EXCEPT !.method = "two_stage", !.region = region] IN
    /\ gemini_call.pc = "idle"
    /\ gemini_call' =
           CASE stage1 = "raise" -> Done(c, "error", "error")
             [] stage1 = "empty" -> Done(c, "error", "stage1_empty")
             [] OTHER -> [c EXCEPT !.pc = IF NeedsRoi(region) THEN "roi" ELSE "full"]
    /\ CallOnly

\* one pass through the region-of-interest path and the caller's test of
\* what it returned
\*   roi       : the path taken before the full-frame call
\*   roi_again : _apply_roi_sequence after the full-frame call yielded no bytes
\*   roi_safe  : _apply_roi_sequence in the safety fallback
\*   roi_only  : _apply_roi_sequence in generate_virtual_tryon_sensitive
RoiAttempt(outcome) ==
    LET c == [gemini_call EXCEPT !.attempts = Append(@, gemini_call.pc),
                                 !.roi_none = @ \/ RoiReturns(outcome) = "none"]
    IN
    /\ gemini_call.pc \in {"roi", "roi_again", "roi_safe", "roi_only"}
    /\ gemini_call' =
           IF RoiReturns(outcome) = "ok"
           THEN Done(c, "ok", "two_stage_roi")
           ELSE CASE gemini_call.pc = "roi" -> [c EXCEPT !.pc = "full"]
                  [] gemini_call.pc = "roi_again" -> AfterNoImage(c, c.first)
                  [] gemini_call.pc = "roi_safe" -> [c EXCEPT !.pc = "retry"]
                  [] OTHER -> Done(c, "error", "sensitive_failed")
    /\ CallOnly

\* the full-frame generation call of two_stage and what follows its response
FullFrame(resp) ==
    LET c == [gemini_call EXCEPT !.attempts = Append(@, "full"), !.first = resp] IN
    /\ gemini_call.pc = "full"
    /\ gemini_call' =
           IF resp.raised THEN Done(c, "error", "error")
           ELSE IF ExtractSdk(resp) THEN Done(c, "ok", "two_stage")
           ELSE IF NeedsRoi(c.region) THEN [c EXCEPT !.pc = "roi_again"]
           ELSE AfterNoImage(c, resp)
    /\ CallOnly

\* the full-frame call with the rewritten prompt
Retry(resp) ==
    /\ gemini_call.pc = "retry"
    /\ gemini_call' =
           AfterRetry([gemini_call EXCEPT !.attempts = Append(@, "retry")], resp)
    /\ CallOnly

\* generate_virtual_tryon_sensitive: the region-of-interest sequence and
\* nothing else
Sensitive ==
    LET c == [gemini_call EXCEPT !.method = "sensitive", !.region = "full"] IN
    /\ gemini_call.pc = "idle"
    /\ gemini_call' =
           IF ShouldUseRoi
           THEN [c EXCEPT !.pc = "roi_only"]
           ELSE \* _apply_roi_sequence calls neither path and returns None
                Done([c EXCEPT !.roi_none = TRUE], "error", "sensitive_failed")
    /\ CallOnly


\* generate_virtual_tryon from the response on: the result's mode
TryonAnswer(resp) ==
    IF resp.raised THEN "error"
    ELSE IF ExtractSdk(resp) THEN "api"
    ELSE IF RefusalFlagged(resp) THEN "generation_refused"
    ELSE IF ExtractB64(resp) THEN "api"
    ELSE "no_image"

\* generate_virtual_tryon: its one vendor call
Tryon(resp) ==
    LET c == [gemini_call EXCEPT !.method = "tryon", !.region = "full",
                                 !.attempts = <<"full">>, !.first = resp]
        mode == TryonAnswer(resp)
    IN
    /\ gemini_call.pc = "idle"
    /\ gemini_call' = Done(c, IF mode = "api" THEN "ok" ELSE "error", mode)
    /\ CallOnly

CallInit == ReloadInit

CallNext ==
    \/ \E region \in {"full", "upper", "lower"} :
       \E stage1 \in {"text", "empty", "raise"} : TwoStageBegin(region, stage1)
    \/ \E outcome \in RoiOutcomes : RoiAttempt(outcome)
    \/ \E resp \in Responses : FullFrame(resp)
    \/ \E resp \in Responses : Retry(resp)
    \/ Sensitive
    \/ \E resp \in Responses : Tryon(resp)

CallSpec == CallInit /\ [][CallNext]_vars

\* ------------------------------------------- region-of-interest generation
\* int(round(k/100 * n)): round rounds a tie to the even neighbour
Round(k, n) ==
    LET q == (k * n) \div 100
        r == (k * n) % 100
    IN IF 2 * r < 100 THEN q
       ELSE IF 2 * r > 100 THEN q + 1
       ELSE IF q % 2 = 0 THEN q ELSE q + 1

Max(a, b) == IF a >= b THEN a ELSE b
Min(a, b) == IF a <= b THEN a ELSE b

\* the fractions truncated and left unclamped
ClampedBox_Truncated(w, h, l, r, t, b) ==
    <<(l * w) \div 100, (t * h) \div 100, (r * w) \div 100, (b * h) \div 100>>

\* the box <<left, top, right, bottom>> of the fractions given in percent,
\* clamped to the image
ClampedBox(w, h, l, r, t, b) ==
    LET left == Max(0, Min(Round(l, w), w - 1))
        right == Max(left + 1, Min(Round(r, w), w))
        top == Max(0, Min(Round(t, h), h - 1))
        bottom == Max(top + 1, Min(Round(b, h), h))
    IN <<left, top, right, bottom>>

ComputeLowerBodyRoi(w, h) == ClampedBox(w, h, 15, 85, 45, 92)
ComputeUpperBodyRoi(w, h) == ClampedBox(w, h, 10, 90, 5, 55)

ComputeRoi(which, w, h) ==
    IF which = "lower" THEN ComputeLowerBodyRoi(w, h) ELSE ComputeUpperBodyRoi(w, h)

\* the pixel positions of a w x h image
Pixels(w, h) == (0 .. w - 1) \X (0 .. h - 1)

\* the user image: every pixel is its own colour
Original(w, h) == [p \in Pixels(w, h) |-> <<"orig", p[1], p[2]>>]

\* Image.resize((rw, rh)) of the generated patch: an image of exactly that
\* size whose pixels all come from the patch
Resize(patch, rw, rh) ==
    [size |-> <<rw, rh>>,
     px |-> [p \in Pixels(rw, rh) |->
                <<"gen", (p[1] * patch[1]) \div rw, (p[2] * patch[2]) \div rh>>]]

\* the patch lands in the image's corner
Paste_AtOrigin(base, gen, at_x, at_y) ==
    [p \in DOMAIN base |->
        IF p[1] < gen.size[1] /\ p[2] < gen.size[2]
        THEN gen.px[p]
        ELSE base[p]]

\* base.paste(gen, (at_x, at_y)): the pixels under gen are replaced
Paste(base, gen, at_x, at_y) ==
    [p \in DOMAIN base |->
        IF /\ at_x <= p[1] /\ p[1] < at_x + gen.size[1]
           /\ at_y <= p[2] /\ p[2] < at_y + gen.size[2]
        THEN gen.px[<<p[1] - at_x, p[2] - at_y>>]
        ELSE base[p]]

\* the sizes of the image the vendor answers with
PatchSides == {1, 3}

\* the calls of _generate_on_lower_body_roi and _generate_on_upper_body_roi
RoiInputs ==
    {[NoRoi EXCEPT !.pc = "start", !.which = which, !.w = w, !.h = h,
                   !.image = Original(w, h)] :
        which \in {"lower", "upper"}, w \in 1 .. MaxSide, h \in 1 .. MaxSide}

RoiOnly ==
    UNCHANGED <<history_file, history_calls, history_done, lock, lock_threads,
                gemini_call, kling_poll, persistVars, reloadVars, routeVars,
                tryonVars, videoVars>>

\* the image is opened, the box computed and cropped, the crop sent to the
\* vendor
RoiCrop ==
    /\ roi.pc = "start"
    /\ roi' = [roi EXCEPT !.pc = "called", !.box = ComputeRoi(roi.which, roi.w, roi.h)]
    /\ RoiOnly

\* the vendor call raised or its response holds no image: None
RoiNoImage ==
    /\ roi.pc = "called"
    /\ roi' = [roi EXCEPT !.pc = "done", !.result = "none"]
    /\ RoiOnly

\* the vendor answered with an image of some size
RoiImage(pw, ph) ==
    /\ roi.pc = "called"
    /\ roi' = [roi EXCEPT !.pc = "generated", !.patch = <<pw, ph>>]
    /\ RoiOnly

\* the user image is opened again, the box computed from its size, the
\* patch resized to the box and pasted at its corner, the result saved as
\* a JPEG file of the same size
RoiComposite ==
    LET box == ComputeRoi(roi.which, roi.w, roi.h)
        gen == Resize(roi.patch, box[3] - box[1], box[4] - box[2])
    IN
    /\ roi.pc = "generated"
    /\ roi' = [roi EXCEPT !.pc = "done", !.gen_size = gen.size,
                          !.image = Paste(roi.image, gen, box[1], box[2]),
                          !.file = <<roi.w, roi.h>>, !.result = "ok"]
    /\ RoiOnly

\* decoding the patch or writing the file raised: None
RoiCompositeFails ==
    /\ roi.pc = "generated"
    /\ roi' = [roi EXCEPT !.pc = "done", !.result = "none"]
    /\ RoiOnly

RoiInit == ServicesBuilt /\ SideRest /\ roi \in RoiInputs

RoiNext ==
    \/ RoiCrop
    \/ RoiNoImage
    \/ \E pw, ph \in PatchSides : RoiImage(pw, ph)
    \/ RoiComposite
    \/ RoiCompositeFails

RoiSpec == RoiInit /\ [][RoiNext]_vars

\* --------------------------------------------- KlingAI image task polling
\* what one status request of _poll_task_result can meet
PollAnswers == {"done", "failed", "processing", "unknown", "http_error", "exception"}

\* the poll intervals a status request can take before it answers
RequestUnits == {0, 1}

\* the counters stop counting one past the values the loop can reach
PollCap == PollTimeout + 2

\* the loop never looks at the clock
LoopGuard_Forever(elapsed) == TRUE

\* while time.time() - start_time < timeout
LoopGuard(elapsed) == elapsed < PollTimeout

KlingDone(k, status, mode) == [k EXCEPT !.pc = "done", !.status = status, !.mode = mode]

PollOnly ==
    UNCHANGED <<history_file, history_calls, history_done, lock, lock_threads,
                gemini_call, roi, persistVars, reloadVars, routeVars,
                tryonVars, videoVars>>

\* generate_virtual_tryon up to the answer of the task-creating POST
KlingSubmit(answer) ==
    /\ kling_poll.pc = "idle"
    /\ kling_poll' =
           CASE answer = "task" -> [kling_poll EXCEPT !.pc = "polling"]
             [] answer = "no_task" -> [kling_poll EXCEPT !.pc = "extract"]
             [] answer = "api_error" -> KlingDone(kling_poll, "error", "api_error")
             [] answer = "timeout" -> KlingDone(kling_poll, "error", "timeout")
             [] OTHER -> KlingDone(kling_poll, "error", "error")
    /\ PollOnly

\* one pass of the polling loop: the status request and, unless the status
\* ends the loop, the sleep of one poll interval
KlingPoll(answer, took) ==
    LET k == [kling_poll EXCEPT !.polls = Min(@ + 1, PollCap), !.last = answer] IN
    /\ kling_poll.pc = "polling"
    /\ LoopGuard(kling_poll.elapsed)
    /\ kling_poll' =
           IF answer = "done"
           THEN [k EXCEPT !.pc = "extract", !.elapsed = Min(@ + took, PollCap)]
           ELSE IF answer = "failed"
           THEN \* None, which the caller reports as a timeout
                KlingDone([k EXCEPT !.elapsed = Min(@ + took, PollCap)],
                          "error", "timeout")
           ELSE [k EXCEPT !.elapsed = Min(@ + took + 1, PollCap)]
    /\ PollOnly

\* the loop's condition fails: None, and the caller's error result
KlingPollTimeout ==
    /\ kling_poll.pc = "polling"
    /\ ~LoopGuard(kling_poll.elapsed)
    /\ kling_poll' = KlingDone(kling_poll, "error", "timeout")
    /\ PollOnly

\* the image is looked up in the result: a URL, inline data or nothing
KlingExtract(found) ==
    /\ kling_poll.pc = "extract"
    /\ kling_poll' =
           CASE found = "url" -> [kling_poll EXCEPT !.pc = "download"]
             [] found = "data" -> KlingDone(kling_poll, "ok", "klingai")
             [] found = "bad_data" -> KlingDone(kling_poll, "error", "error")
             [] OTHER -> KlingDone(kling_poll, "error", "no_image")
    /\ PollOnly

\* the one GET of the image URL
KlingDownload(answer) ==
    LET k == [kling_poll EXCEPT !.downloads = @ + 1] IN
    /\ kling_poll.pc = "download"
    /\ kling_poll' =
           CASE answer = "200" -> KlingDone(k, "ok", "klingai")
             [] answer = "http_error" -> KlingDone(k, "error", "download_error")
             [] answer = "timeout" -> KlingDone(k, "error", "timeout")
             [] OTHER -> KlingDone(k, "error", "error")
    /\ PollOnly

PollInit == ReloadInit

PollNext ==
    \/ \E answer \in {"task", "no_task", "api_error", "timeout", "raise"} :
           KlingSubmit(answer)
    \/ \E answer \in PollAnswers : \E took \in RequestUnits : KlingPoll(answer, took)
    \/ KlingPollTimeout
    \/ \E found \in {"url", "data", "bad_data", "none"} : KlingExtract(found)
    \/ \E answer \in {"200", "http_error", "timeout", "raise"} : KlingDownload(answer)

\* the thread that runs the call keeps running
PollSpec == PollInit /\ [][PollNext]_vars /\ WF_vars(PollNext)

\* ================================================================ claims

\* the session has an entry in one of the session tables
InTable(s) == s \in DOMAIN session_errors \/ s \in DOMAIN session_outputs

\* the answer get_result gives for s is terminal
Answered(s) == Terminal(GetResultValue(s))

InvalidImages == {"missing", "notdata", "undecodable"}

\* C1 -- terminal monotonicity: once get_result(s) answers ok or error, every
\* later get_result(s) gives the same status with the same output / message.
\* get_result can be called in every state, so this says that no step
\* changes a terminal answer.
C1_TerminalMonotonicity ==
    [][\A s \in SIDs : Answered(s) => GetResultValue(s)' = GetResultValue(s)]_vars

\* C2 -- error precedence: whenever both tables hold an entry for the same
\* session id, get_result answers error with the stored message, never ok.
C2_ErrorPrecedence ==
    /\ \A s \in SIDs :
          (s \in DOMAIN session_errors /\ s \in DOMAIN session_outputs)
              => GetResultValue(s) = [status |-> "error", output |-> NoPath,
                                      message |-> session_errors[s]]
    /\ (lastPoll.sawErr /\ lastPoll.sawOut) => lastPoll.status = "error"

\* a poll was made while both tables held an entry for its session id
C2_Witness ==
    /\ lastPoll.sid \in SIDs
    /\ lastPoll.sawErr /\ lastPoll.sawOut
    /\ lastPoll.status = "error"
    /\ lastPoll.sid \in DOMAIN session_errors
    /\ lastPoll.sid \in DOMAIN session_outputs

\* C3 -- no session stays in processing forever: every session id that a
\* start call returned with status processing eventually gets the answer
\* ok or error (threads scheduled fairly, vendor calls return or fail).
C3_NoSessionProcessingForever ==
    \A s \in SIDs : (s \in accepted) ~> Answered(s)

\* C4 -- at most one terminal write per session: no session id is ever
\* written to the session tables more than once.
C4_AtMostOneTerminalWrite ==
    \A s \in SIDs : writes[s] <= 1

\* C5 -- synchronous input rejection: a start call whose subject image is
\* missing, is not an image data URL or cannot be decoded returns an error,
\* returns no session id, adds no table entry and starts no background job.
C5_SynchronousInputRejection ==
    lastStart.img \in InvalidImages
        => /\ lastStart.status = "error"
           /\ ~lastStart.has_sid
           /\ ~lastStart.wrote
           /\ lastStart.spawned = 0

\* C6 -- one background job per accepted request: a start call that returns
\* a session id with status processing has started exactly one thread, and
\* one that returns status error has started none.
C6_OneJobPerAcceptedRequest ==
    /\ (lastStart.status = "processing" /\ lastStart.has_sid)
           => lastStart.spawned = 1
    /\ lastStart.status = "error" => lastStart.spawned = 0

\* C7 -- session ids are unique: no two start calls obtain the same id.
C7_SessionIdsUnique ==
    \A s \in SIDs : issued[s] <= 1

\* C8 -- no cross-session leakage: sessions with different ids never share
\* an output reference, and no output file is written by the jobs of two
\* sessions.
C8_NoCrossSessionLeakage ==
    /\ \A s1, s2 \in DOMAIN session_outputs :
           s1 # s2 => session_outputs[s1] # session_outputs[s2]
    /\ \A f \in DOMAIN files : Cardinality(files[f]) <= 1

\* C9 -- start never blocks on vendor latency: no vendor call is made on the
\* thread of a start call; vendor calls are made by background jobs only.
C9_StartMakesNoVendorCall ==
    "caller" \notin vendorCalls

JobRaises(j) ==
    \/ j.kind = "two_phase" /\ JobBegin(j)
    \/ JobVendor(j, "raise")

ExceptionMessages == {"error: OSError", "two_phase error: NameError"}

\* C11 -- an exception inside a background job ends the session in the error
\* state: the step in which a job raises records a non-empty error message
\* for the job's session id, adds no success entry, ends the thread, and
\* get_result then answers error for that session.
C11_JobExceptionEndsInError ==
    [][\A j \in jobs :
          JobRaises(j)
              => /\ j.sid \in DOMAIN session_errors'
                 /\ Truthy(session_errors'[j.sid])
                 /\ session_outputs' = session_outputs
                 /\ j \notin jobs'
                 /\ GetResultValue(j.sid)'.status = "error"]_vars

\* a job raised, its session has no success entry and answers error
C11_Witness ==
    \E s \in DOMAIN session_errors :
        /\ session_errors[s] \in ExceptionMessages
        /\ s \notin DOMAIN session_outputs
        /\ GetResultValue(s).status = "error"
        /\ \A j \in jobs : j.sid # s

\* C12 -- refusal then successful retry ends ok: when the vendor refuses the
\* generation attempt of a Gemini session, the job does not record an error
\* for it (it is the retry's answer that decides the session).
C12_RefusalThenRetryEndsOk ==
    [][\A j \in jobs :
          (j.kind \in {"gemini", "advanced"} /\ JobVendor(j, "refused"))
              => session_errors' = session_errors]_vars

\* a job of this kind is waiting for the vendor
InVendorCall(kind) == \E j \in jobs : j.kind = kind /\ j.pc = "vendor"

\* C13 -- every Gemini generation call is bounded by a timeout: a job that
\* waits for the vendor inside a GeminiService generate_* method gets out of
\* the call even when the vendor never answers.
C13_VendorCallsTimeOut ==
    \A kind \in {"gemini", "advanced"} :
        InVendorCall(kind) ~> ~InVendorCall(kind)

\* C14 -- no raw exception crosses the adapter boundary: whatever the vendor
\* call comes to, the adapter hands a result dict back to the job.
C14_NoExceptionLeavesAdapter ==
    [][\A j \in jobs : \A outcome \in VendorOutcomes(j.kind) :
          JobVendor(j, outcome)
              => ~AdapterResult(j.kind, outcome, j.outfile).raised]_vars

\* exactly one variant of an adapter result is populated
Exclusive(r) ==
    /\ r.status \in {"ok", "error"}
    /\ r.status = "ok" => (r.output_path # NoPath /\ r.message = NoneMsg)
    /\ r.status = "error" => r.output_path = NoPath

\* C15 -- vendor result exclusivity: every result dict an image adapter
\* returns to a job has status ok with an output path and no message, or
\* status error with no output path.
C15_VendorResultExclusive ==
    [][\A j \in jobs : \A outcome \in VendorOutcomes(j.kind) :
          (JobVendor(j, outcome)
               /\ ~AdapterResult(j.kind, outcome, j.outfile).raised)
              => Exclusive(AdapterResult(j.kind, outcome, j.outfile))]_vars

\* one adapter call returned an image and one returned a refusal
C15_Witness ==
    /\ \E s \in DOMAIN session_outputs : session_outputs[s].prefix = "gen"
    /\ \E s \in DOMAIN session_errors :
           session_errors[s] \in {"generation refused", "cannot generate"}

\* C16 -- video duration is validated before the network call: a
\* generate_video call with a duration outside {5, 10} returns an error and
\* sends no HTTP request.
C16_DurationValidated ==
    (lastGen.status # "none" /\ lastGen.duration \notin SupportedDurations)
        => (lastGen.status = "error" /\ ~lastGen.sent)

\* C17 -- the result video is downloaded once: the result of a task is
\* downloaded at most once, and every completed answer carries the output
\* reference of the first one.
C17_DownloadedOnce ==
    /\ downloads <= 1
    /\ lastVideoPoll.status = "completed"
           => lastVideoPoll.output = firstCompleted

\* C18 -- vendor status vocabulary: both pollers treat succeed, success and
\* completed as done, failed and error as failed, and processing, submitted
\* and pending as still processing.
C18_StatusClassification ==
    /\ \A w \in DoneWords : PollTaskClass(w) = "done"
    /\ \A w \in FailedWords : PollTaskClass(w) = "failed"
    /\ \A w \in ProcessingWords : PollTaskClass(w) = "processing"
    /\ lastVideoPoll.word \in DoneWords => lastVideoPoll.class = "done"
    /\ lastVideoPoll.word \in FailedWords => lastVideoPoll.class = "failed"
    /\ lastVideoPoll.word \in ProcessingWords
           => lastVideoPoll.class = "processing"

\* C19 -- poll_video_task answers with one of processing, completed, failed,
\* unknown, and completed comes with an output path.
C19_VideoPollStatus ==
    /\ lastVideoPoll.status
           \in {"none", "processing", "completed", "failed", "unknown"}
    /\ lastVideoPoll.status = "completed" => lastVideoPoll.output # NoVideo

\* the identifier names a turbo variant: it contains the letters t, u, r, b, o
\* in a row, each in either case
IsTurboVariant(m) ==
    \E i \in 1..(Len(m) - 4) :
        \A k \in 1..5 : m[i + k - 1] \in {TurboWord[k], TurboWordUpper[k]}

\* C20 -- the performance mode is sent conditionally: the payload a
\* generate_video call builds has the field mode exactly when the selected
\* model identifier is not a turbo variant.
C20_ModeSentUnlessTurbo ==
    lastGen.built
        => (lastGen.has_mode <=> ~IsTurboVariant(lastGen.model_name))

\* a payload was built without mode for a turbo identifier written with
\* capitals, and one could be built with mode for the current identifier
C20_Witness ==
    /\ lastGen.built
    /\ lastGen.sent
    /\ ~lastGen.has_mode
    /\ lastGen.model_name = KlingTurboCaps
    /\ video_model = KlingTurb

\* the active vendor the settings file names
ActiveVendor(form, setting) ==
    IF form = "ok" /\ setting # Missing THEN setting ELSE "Gemini"

\* C21 -- vendor selection is a per-call decision: a start call goes through
\* the KlingAI flow exactly when the settings file names KlingAI as the
\* active vendor at the time of the call, whatever it named when the service
\* was built or at earlier calls; the job the call starts is a KlingAI job
\* in the one case and a Gemini job in the other.
C21_VendorSelectedPerCall ==
    lastRoute # NoRoute
        => /\ lastRoute.flow = "klingai"
                  <=> ActiveVendor(lastRoute.form, lastRoute.setting) = "KlingAI"
           /\ \A j \in jobs :
                  j.tid = lastRoute.tid
                      => (j.kind = "klingai"
                              <=> ActiveVendor(lastRoute.form, lastRoute.setting)
                                      = "KlingAI")

\* the service was routing to Gemini, the file was changed to KlingAI, and
\* the next start call started a KlingAI job
C21_Witness ==
    /\ lastRoute.before = "Gemini"
    /\ lastRoute.setting = "KlingAI"
    /\ lastRoute.form = "ok"
    /\ lastRoute.flow = "klingai"
    /\ settings.mtime > 1
    /\ \E j \in jobs : j.tid = lastRoute.tid /\ j.kind = "klingai"

\* C22 -- hot-reload takes effect: a GeminiService method that is called
\* while the file is a JSON object and that reaches the vendor makes its
\* calls with the credential, the image model and the text model the file
\* holds at that time.
C22_HotReloadTakesEffect ==
    [][\A method \in GeminiMethods :
          (GeminiCall(method) /\ settings.form = "ok" /\ lastCall'.reached)
              => /\ settings.GEMINI_API_KEY # ""
                        => lastCall'.key = settings.GEMINI_API_KEY
                 /\ (UsesImageModel(method) /\ settings.GEMINI_MODEL # "")
                        => lastCall'.model = settings.GEMINI_MODEL
                 /\ (UsesLlm(method) /\ settings.GEMINI_LLM # "")
                        => lastCall'.llm = settings.GEMINI_LLM]_vars

\* a step that calls GeminiService._reload_settings_if_changed
GeminiReloadStep == GeminiReload \/ \E method \in GeminiMethods : GeminiCall(method)

Unloadable(f) ==
    \/ f.form # "ok"
    \/ (f.KLINGAI_VIDEO_DURATION # "" /\ ParseInt(f.KLINGAI_VIDEO_DURATION) = NoInt)

\* C24 -- a failed reload keeps the previous snapshot: a call of
\* _reload_settings_if_changed on a file that cannot be loaded leaves every
\* field of the service as it was.
C24_FailedReloadKeepsSnapshot ==
    [][/\ (GeminiReloadStep /\ settings.form # "ok")
              => GeminiFields' = GeminiFields
       /\ (VideoReload /\ Unloadable(settings))
              => VideoFields' = VideoFields]_vars

\* the message get_result gives for a session whose adapter call ended in
\* this outcome
UserMessage(kind, outcome) == OrDefault(AdapterMessage(kind, outcome), "try-on failed")

\* C25 -- a refusal is reported distinctly from a generic failure: when the
\* vendor refuses the generation of a Gemini session on content-safety
\* grounds, the message get_result then gives for the session differs from
\* the one it gives when the response simply carries no image.
C25_RefusalDistinct ==
    [][\A j \in jobs :
          (j.kind \in {"gemini", "advanced"} /\ JobVendor(j, "refused"))
              => GetResultValue(j.sid)'.message # UserMessage(j.kind, "no_image")]_vars

\* the messages that carry the type name of an exception (the jobs' except
\* clauses) or the text of an exception or of the vendor's error answer
\* (the adapters' results for a failed call)
InternalDetails == ExceptionMessages \cup {"api error"}

\* C26 -- internal errors are not exposed verbatim: no message get_result
\* gives carries the type name or the text of an internal exception or a
\* raw vendor error string.
C26_NoInternalDetails ==
    \A s \in SIDs \cup {NoSid} : GetResultValue(s).message \notin InternalDetails

\* C29 -- KlingAI submit fails fast on an unresolvable reference image: when
\* the reference image of a KlingAI job resolves in none of the candidate
\* directories, the adapter returns the error "Garment image not found"
\* without sending a request to the vendor: the job records that message,
\* ends, and no vendor call is made.
C29_KlingaiFailsFastWithoutGarment ==
    [][\A j \in jobs :
          (j.kind = "klingai" /\ j.garment = "none" /\ klingai = "ready"
               /\ JobBegin(j))
              => /\ j.sid \in DOMAIN session_errors'
                 /\ session_errors'[j.sid] = "Garment image not found"
                 /\ vendorCalls' = vendorCalls
                 /\ \A k \in jobs' : k.tid # j.tid]_vars

\* a KlingAI session ended with the missing-reference error and no job has
\* called the vendor
C29_Witness ==
    /\ klingai = "ready"
    /\ "job" \notin vendorCalls
    /\ \E s \in DOMAIN session_errors :
           /\ session_errors[s] = "Garment image not found"
           /\ \A j \in jobs : j.sid # s

\* C28 -- persistence failures never affect the primary flow: no
\* _save_tryon_record call lets an exception out, and a job step whose
\* write of the record fails changes the session tables exactly as the
\* job's handling of the adapter result does on its own, so get_result
\* answers as it would after a successful write.
C28_SaveFailureHarmless ==
    [][/\ ~lastSave'.raised
       /\ \A j \in jobs : \A outcome \in VendorOutcomes(j.kind) :
              (JobVendor(j, outcome) /\ lastSave'.failed)
                  => JobHandle(j, AdapterResult(j.kind, outcome, j.outfile))]_vars

\* a job's result was written to the success table while the write of its
\* record failed, and get_result answers ok
C28_Witness ==
    /\ lastSave.failed
    /\ lastSave.status = "ok"
    /\ lastSave.sid \in DOMAIN session_outputs
    /\ lastSave.sid \notin DOMAIN session_errors
    /\ lastSave.sid \notin DOMAIN tryon_records
    /\ GetResultValue(lastSave.sid).status = "ok"

\* the update_record calls on record r that returned the record
Returned(r) == {d \in history_done : d.record_id = r /\ d.returned}

\* C27 -- history updates do not lose data under concurrency: once every
\* update_record call has returned, each field of each stored record holds
\* what a returned call on that record wrote into it, or, when no returned
\* call wrote the field, what it held before; no record is missing.
C27_NoLostUpdate ==
    history_calls = {} =>
        /\ history_file.ok
        /\ DOMAIN history_file.records = RecordIds
        /\ \A r \in RecordIds : \A f \in RecordFields :
               LET written == {d.args[f] : d \in Returned(r)} \ {""} IN
               IF written = {}
               THEN history_file.records[r][f] = NewRecord[f]
               ELSE history_file.records[r][f] \in written

\* the threads that are reading or writing a session table
InAccess == {t \in DOMAIN lock_threads : lock_threads[t].pc \in AccessPcs}

\* C30 -- all access to the session tables is lock-protected: a thread that
\* is reading or writing a table, whether a background job, a start path or
\* get_result, holds the lock, and no two threads are inside a table access
\* at the same time.
C30_TablesLockProtected ==
    /\ \A t \in InAccess : lock = t
    /\ Cardinality(InAccess) <= 1

\* a job is writing its result while get_result waits at the lock
C30_Witness ==
    \E t, u \in DOMAIN lock_threads :
        /\ lock_threads[t].kind = "job"
        /\ lock_threads[t].pc = "write"
        /\ lock = t
        /\ lock_threads[u].kind = "get_result"
        /\ lock_threads[u].pc = "enter"

\* C38 -- stored errors are never empty: every value in the error table is
\* a non-empty message, whatever the vendor's result was, so get_result
\* answers error for every session that has an entry there.
C38_StoredErrorsNonEmpty ==
    \A s \in DOMAIN session_errors :
        /\ Truthy(session_errors[s])
        /\ GetResultValue(s).status = "error"

\* a job whose adapter result had no message recorded the default message
C38_Witness ==
    \E s \in DOMAIN session_errors :
        /\ session_errors[s] = "try-on failed"
        /\ GetResultValue(s).message = "try-on failed"

\* C39 -- two-phase success: with the Gemini client ready, the job of a
\* session started with start_tryon_intimate_two_phase goes into its upper
\* stage without recording an error for the session.
C39_TwoPhaseSuccess ==
    [][\A j \in jobs :
          (j.kind = "two_phase" /\ gemini = "ready" /\ JobBegin(j))
              => j.sid \notin DOMAIN session_errors']_vars

\* the attempts of the call in progress that went by one of the steps in ks
Count(ks) ==
    Cardinality({i \in DOMAIN gemini_call.attempts : gemini_call.attempts[i] \in ks})

RoiSteps == {"roi", "roi_again", "roi_safe", "roi_only"}

\* a generate_virtual_tryon_two_stage call has returned
TwoStageDone == gemini_call.method = "two_stage" /\ gemini_call.pc = "done"

\* C31 -- exactly one retry on a content-other/blocked refusal: a two_stage
\* call with target region full whose first full-frame response carries no
\* image and the finish reason IMAGE_OTHER or a blocking one has made
\* exactly one further full-frame call, with the rewritten prompt, when it
\* returns; one whose first response carries the image has made none.
C31_ExactlyOneRetry ==
    (TwoStageDone /\ gemini_call.region = "full" /\ Count({"full"}) = 1)
        => /\ (/\ ~gemini_call.first.raised
               /\ gemini_call.first.image = "none"
               /\ gemini_call.first.finish \in {"IMAGE_OTHER", "SAFETY"})
                  => gemini_call.attempts = <<"full", "retry">>
           /\ ExtractSdk(gemini_call.first) => gemini_call.attempts = <<"full">>

\* C32 -- retries are bounded: a two_stage call makes at most one full-frame
\* call and one full-frame retry, at most five generation attempts in all,
\* and a retry whose response yields no image ends the call with the
\* refusal result.
C32_RetriesBounded ==
    [][/\ gemini_call'.method = "two_stage"
          => /\ Len(gemini_call'.attempts) <= 5
             /\ Cardinality({i \in DOMAIN gemini_call'.attempts :
                                gemini_call'.attempts[i] = "full"}) <= 1
             /\ Cardinality({i \in DOMAIN gemini_call'.attempts :
                                gemini_call'.attempts[i] = "retry"}) <= 1
       /\ \A resp \in Responses :
             (Retry(resp) /\ ~ExtractSdk(resp) /\ ~ExtractB64(resp))
                 => /\ gemini_call'.pc = "done"
                    /\ gemini_call'.status = "error"
                    /\ gemini_call'.mode = "generation_refused"]_vars

\* the retry of a two_stage call yielded no image and the call returned the
\* refusal after the region path was tried three times
C32_Witness ==
    /\ TwoStageDone
    /\ gemini_call.mode = "generation_refused"
    /\ gemini_call.attempts = <<"roi", "full", "roi_again", "roi_safe", "retry">>

\* C33 -- ROI ordering in the fallback: a two_stage call never tries the
\* region path for region full, tries it at most once for a request (a path
\* that failed is not tried again), and never after the full-frame retry.
C33_RoiOrdering ==
    gemini_call.method = "two_stage"
        => /\ (gemini_call.region = "full" => Count(RoiSteps) = 0)
           /\ Count(RoiSteps) <= 1
           /\ \A i, k \in DOMAIN gemini_call.attempts :
                  (gemini_call.attempts[i] = "retry"
                      /\ gemini_call.attempts[k] \in RoiSteps) => k < i

\* C34 -- ROI failure means fallback: a call whose region path returned
\* None ends in an error only after a full-frame generation call was made
\* for it.
C34_RoiNoneFallsBack ==
    (gemini_call.pc = "done" /\ gemini_call.roi_none
        /\ gemini_call.status = "error")
        => Count({"full"}) >= 1

\* C37 -- extraction order before refusal: generate_virtual_tryon answers
\* ok for every response from which the structured bytes or the base64
\* field of the dict view yields the image, safety signal or not, and
\* answers with the refusal only when neither does.
C37_ExtractionBeforeRefusal ==
    (gemini_call.method = "tryon" /\ gemini_call.pc = "done")
        => /\ (ExtractSdk(gemini_call.first) \/ ExtractB64(gemini_call.first))
                  => gemini_call.status = "ok"
           /\ gemini_call.mode = "generation_refused"
                  => ~(ExtractSdk(gemini_call.first) \/ ExtractB64(gemini_call.first))

\* the box <<left, top, right, bottom>> lies inside the w x h image and is
\* at least one pixel wide and high
InsideImage(box, w, h) ==
    /\ 0 <= box[1] /\ box[1] < box[3] /\ box[3] <= w
    /\ 0 <= box[2] /\ box[2] < box[4] /\ box[4] <= h

\* C35 -- ROI box bounds: for every image of width and height at least 1
\* the boxes of _compute_lower_body_roi and _compute_upper_body_roi satisfy
\* 0 <= left < right <= w and 0 <= top < bottom <= h, and so does the box a
\* region call has cropped.
C35_RoiBoxBounds ==
    roi.pc # "idle"
        => /\ InsideImage(ComputeLowerBodyRoi(roi.w, roi.h), roi.w, roi.h)
           /\ InsideImage(ComputeUpperBodyRoi(roi.w, roi.h), roi.w, roi.h)
           /\ roi.pc # "start" => InsideImage(roi.box, roi.w, roi.h)

\* the box of a one-pixel image is the whole image
C35_Witness ==
    /\ roi.pc = "called" /\ roi.w = 1 /\ roi.h = 1
    /\ roi.box = <<0, 0, 1, 1>>

C40_PollingTerminates ==
    /\ (kling_poll.pc = "polling") ~> (kling_poll.pc = "done")
    /\ [](kling_poll.polls <= PollTimeout /\ kling_poll.downloads <= 1)
    /\ []((kling_poll.pc = "done" /\ kling_poll.polls > 0 /\ kling_poll.last # "done")
             => (kling_poll.status = "error" /\ kling_poll.downloads = 0))
    /\ [][\A took \in RequestUnits :
             /\ KlingPoll("done", took) => kling_poll'.pc = "extract"
             /\ KlingPoll("failed", took)
                    => (kling_poll'.pc = "done" /\ kling_poll'.status = "error")
             /\ KlingPollTimeout
                    => (kling_poll'.pc = "done" /\ kling_poll'.status = "error")]_vars

\* the vendor answered processing until the timeout had passed and the call
\* returned the timeout error without a download
C40_Witness ==
    /\ kling_poll.pc = "done" /\ kling_poll.mode = "timeout"
    /\ kling_poll.last = "processing"
    /\ kling_poll.polls = PollTimeout
    /\ kling_poll.elapsed >= PollTimeout
    /\ kling_poll.downloads = 0

====
